---- MODULE Spec2Model ----
(***************************************************************************)
(* A model of the table cache, the relationship extraction and the graph  *)
(* traversal of the ClickHouse schema-flow visualizer                      *)
(* (package models, ClickHouseClient).                                     *)
(*                                                                         *)
(* Strings.  A Go string is modelled as the sequence of its lexical        *)
(* symbols: every character the code splits on or concatenates with (the   *)
(* space, the single quote, the dot) is a symbol of its own, and a run of   *)
(* other characters is one symbol ("Replicated" and "MergeTree" are two     *)
(* symbols where the code tests a prefix).  The empty string is << >>.     *)
(* A pointer to uint64 is a sequence of length 0 (nil) or 1 (the value).  *)
(***************************************************************************)
EXTENDS Integers, Sequences, FiniteSets, TLC

VARIABLES
    cache,      \* c.cache: Tables, Relations, DatabasesMap, LastRefresh
    mutex,      \* c.cache.mutex: the writer holding it (0: none) and the readers holding it
    now,        \* the wall clock, in minutes
    procs,      \* one record per request goroutine: its operation and where it stands
    history,    \* bookkeeping for the properties: load counter, the generations loaded
    ex,         \* the extraction specification's input row and output
    legacy,     \* the package variables TableRelations, DatabasesData, TableMetadata
    req,        \* the whole-database schema request and where it stands
    adapter     \* the adapter specification's input and what the adapters make of it

vars == <<cache, mutex, now, procs, history, ex, legacy, req, adapter>>

----------------------------------------------------------------------------
(* strings *)

EmptyString == << >>

\* strings.HasPrefix(s, prefix)
HasPrefix(s, prefix) ==
    /\ Len(s) >= Len(prefix)
    /\ SubSeq(s, 1, Len(prefix)) = prefix

RECURSIVE SplitAcc(_, _, _)
SplitAcc(s, sep, cur) ==
    IF s = << >> THEN <<cur>>
    ELSE IF HasPrefix(s, sep)
         THEN <<cur>> \o SplitAcc(SubSeq(s, Len(sep) + 1, Len(s)), sep, << >>)
         ELSE SplitAcc(Tail(s), sep, Append(cur, Head(s)))

\* strings.Split(s, sep) for a non-empty separator: the substrings between the
\* non-overlapping occurrences of sep, leftmost first; <<s>> when there is none.
Split(s, sep) == SplitAcc(s, sep, << >>)

\* strings.ToLower on one symbol: only the letter-case variants the model uses.
LowerSym(c) ==
    CASE c = "INFORMATION_SCHEMA" -> "information_schema"
      [] c = "Information_Schema" -> "information_schema"
      [] c = "SYSTEM" -> "system"
      [] c = "MergeTree" -> "mergetree"
      [] c = "Distributed" -> "distributed"
      [] c = "Memory" -> "memory"
      [] OTHER -> c

\* strings.ToLower(s)
ToLower(s) == [i \in 1..Len(s) |-> LowerSym(s[i])]

\* database + "." + name
QualifiedName(database, name) == database \o <<".">> \o name

\* the character ` with which ClickHouse quotes a name that is no plain identifier
Backtick == "backtick"

----------------------------------------------------------------------------
(* relationship extraction *)

\* TableRelation{DependsOnTable, Table, Icon}
TableRelation(dependsOn, table, icon) ==
    [DependsOnTable |-> dependsOn, Table |-> table, Icon |-> icon]

\* getEngineIcon: the icon class of an engine kind (first match wins)
getEngineIcon(engine) ==
    CASE engine = <<"MergeTree">> -> "fa-database"
      [] engine # <<"MergeTree">> /\ HasPrefix(engine, <<"Replicated">>) -> "fa-circle-nodes"
      [] engine # <<"MergeTree">> /\ ~HasPrefix(engine, <<"Replicated">>)
           /\ HasPrefix(engine, <<"Dictionary">>) -> "fa-book"
      [] engine = <<"Distributed">> -> "fa-diagram-project"
      [] engine = <<"MaterializedView">> -> "fa-eye"
      [] OTHER -> "fa-table"

\* a variant of the "MaterializedView" case that takes the destination one token early
ExtractMaterializedViewEarly(createQuery, icon) ==
    LET queryParts1 == Split(createQuery, <<" ">>)
        queryParts2 == Split(createQuery, <<"FROM", " ">>)
    IN  IF Len(queryParts1) > 5 /\ Len(queryParts2) > 1
        THEN << TableRelation(Split(queryParts2[2], <<" ">>)[1], queryParts1[4], icon),
                TableRelation(queryParts1[4], queryParts1[5], icon) >>
        ELSE << >>

\* the "MaterializedView" case of extractRelationsFromQuery
ExtractMaterializedView(createQuery, icon) ==
    LET queryParts1 == Split(createQuery, <<" ">>)
        queryParts2 == Split(createQuery, <<"FROM", " ">>)
    IN  IF Len(queryParts1) > 5 /\ Len(queryParts2) > 1
        THEN LET mvTable     == queryParts1[4]
                 targetTable == queryParts1[6]
                 queryParts3 == Split(queryParts2[2], <<" ">>)
                 sourceTable == queryParts3[1]
             IN  << TableRelation(sourceTable, mvTable, icon),
                    TableRelation(mvTable, targetTable, icon) >>
        ELSE << >>

\* a variant of the "Distributed" case that asks for more than 6 tokens
ExtractDistributedStrict(fullTableName, engineFull, icon) ==
    LET parts == Split(engineFull, <<"'">>)
    IN  IF Len(parts) > 6
        THEN << TableRelation(fullTableName, parts[4] \o <<".">> \o parts[6], icon) >>
        ELSE << TableRelation(EmptyString, fullTableName, icon) >>

\* the "Distributed" case of extractRelationsFromQuery
ExtractDistributed(fullTableName, engineFull, icon) ==
    LET parts == Split(engineFull, <<"'">>)
    IN  IF Len(parts) >= 6
        THEN << TableRelation(fullTableName, parts[4] \o <<".">> \o parts[6], icon) >>
        ELSE << TableRelation(EmptyString, fullTableName, icon) >>

\* a variant of the default case with the edge reversed
ExtractDefaultReversed(fullTableName, loadingDepsDB, loadingDepsTable, icon) ==
    IF Len(loadingDepsDB) > 0 /\ Len(loadingDepsTable) > 0
    THEN << TableRelation(fullTableName,
                          loadingDepsDB[1] \o <<".">> \o loadingDepsTable[1], icon) >>
    ELSE << TableRelation(EmptyString, fullTableName, icon) >>

\* the default case of extractRelationsFromQuery ("Handle dictionary dependencies")
ExtractDefault(fullTableName, loadingDepsDB, loadingDepsTable, icon) ==
    IF Len(loadingDepsDB) > 0 /\ Len(loadingDepsTable) > 0
    THEN << TableRelation(loadingDepsDB[1] \o <<".">> \o loadingDepsTable[1],
                          fullTableName, icon) >>
    ELSE << TableRelation(EmptyString, fullTableName, icon) >>

\* extractRelationsFromQuery: switch on the engine kind (exact matches only)
extractRelationsFromQuery(database, table, engine, engineFull, createQuery, loadingDepsDB, loadingDepsTable) ==
    LET fullTableName == QualifiedName(database, table)
        icon == getEngineIcon(engine)
    IN  CASE engine = <<"MergeTree">> ->
               << TableRelation(EmptyString, fullTableName, icon) >>
          [] engine = <<"Distributed">> ->
               ExtractDistributed(fullTableName, engineFull, icon)
          [] engine = <<"MaterializedView">> ->
               ExtractMaterializedView(createQuery, icon)
          [] OTHER ->
               ExtractDefault(fullTableName, loadingDepsDB, loadingDepsTable, icon)

\* One row of the loop of getTablesRelations (the whole-database schema's
\* extraction): the relations it appends, whether it lists the table in
\* DatabasesData, and whether it panics (an index out of range).
LegacyRow(panic, relations, listed, icon) ==
    [panic |-> panic, relations |-> relations, listed |-> listed, icon |-> icon]

getTablesRelationsRow(database, table, engine, engineFull, createQuery, loadingDepsDB, loadingDepsTable) ==
    LET queryParts == Split(createQuery, <<" ">>)
    IN  IF engine = <<"MergeTree">>
        THEN \* the label is set only inside the length check
             IF Len(queryParts) > 2
             THEN LegacyRow(FALSE, << TableRelation(EmptyString, queryParts[3], "fa-database") >>,
                            TRUE, "fa-database")
             ELSE LegacyRow(FALSE, << >>, FALSE, "fa-database")
        ELSE IF HasPrefix(engine, <<"Replicated">>)
        THEN IF Len(queryParts) > 2
             THEN LegacyRow(FALSE, << TableRelation(EmptyString, queryParts[3], "fa-circle-nodes") >>,
                            TRUE, "fa-circle-nodes")
             ELSE LegacyRow(FALSE, << >>, TRUE, "fa-circle-nodes")
        ELSE IF HasPrefix(engine, <<"Dictionary">>)
        THEN IF Len(queryParts) > 2
             THEN IF Len(loadingDepsDB) > 0 /\ Len(loadingDepsTable) > 0
                  THEN LegacyRow(FALSE,
                         << TableRelation(loadingDepsDB[1] \o <<".">> \o loadingDepsTable[1],
                                          queryParts[3], "fa-book") >>, TRUE, "fa-book")
                  ELSE LegacyRow(FALSE, << TableRelation(EmptyString, queryParts[3], "fa-book") >>,
                                 TRUE, "fa-book")
             ELSE LegacyRow(FALSE, << >>, TRUE, "fa-book")
        ELSE IF engine = <<"Distributed">>
        THEN LET queryParts2 == Split(engineFull, <<"'">>)
             IN  IF Len(queryParts) > 2
                 THEN IF Len(queryParts2) >= 6
                      THEN LegacyRow(FALSE,
                             << TableRelation(queryParts[3],
                                              queryParts2[4] \o <<".">> \o queryParts2[6],
                                              "fa-diagram-project") >>, TRUE, "fa-diagram-project")
                      ELSE LegacyRow(FALSE,
                             << TableRelation(EmptyString, queryParts[3], "fa-diagram-project") >>,
                             TRUE, "fa-diagram-project")
                 ELSE LegacyRow(FALSE, << >>, TRUE, "fa-diagram-project")
        ELSE IF engine = <<"MaterializedView">>
        THEN LET queryParts1 == queryParts
                 queryParts2 == Split(createQuery, <<"FROM", " ">>)
             IN  IF Len(queryParts1) > 3 /\ Len(queryParts2) > 1
                 THEN \* queryParts1[5] is read after a check of len > 3 only
                      IF Len(queryParts1) < 6
                      THEN LegacyRow(TRUE, << >>, TRUE, "fa-eye")
                      ELSE LET queryParts3 == Split(queryParts2[2], <<" ">>)
                           IN  LegacyRow(FALSE,
                                 << TableRelation(queryParts3[1], queryParts1[4], "fa-eye"),
                                    TableRelation(queryParts1[4], queryParts1[6], "fa-eye") >>,
                                 TRUE, "fa-eye")
                 ELSE LegacyRow(FALSE, << >>, TRUE, "fa-eye")
        ELSE LegacyRow(FALSE, << TableRelation(EmptyString, table, "fa-table") >>,
                       TRUE, "fa-table")

----------------------------------------------------------------------------
(* the inputs of the extraction specification *)

App == <<"app">>

\* engine kinds
Engines ==
    { <<"MergeTree">>, <<"Replicated", "MergeTree">>, <<"Replicated">>,
      <<"Dictionary">>, <<"Distributed">>, <<"MaterializedView">>,
      <<"Memory">>, <<"Summing", "MergeTree">> }

\* Distributed('c','app','a',rand())
EngineFullDistributed ==
    <<"Distributed(", "'", "c", "'", ",", "'", "app", "'", ",", "'", "a", "'", ",rand())">>

\* engine parameter strings: none, the documented shape, exactly 6 tokens, 5 tokens
EngineFulls ==
    { EmptyString,
      EngineFullDistributed,
      <<"Distributed(", "'", "c", "'", ",", "'", "app", "'", ",", "'", "a">>,
      <<"Distributed(", "'", "c", "'", ",", "'", "app", "'", ")">> }

\* CREATE MATERIALIZED VIEW <mv> TO <dest> AS SELECT * FROM <src>
CreateMV(mv, dest, src) ==
    <<"CREATE", " ", "MATERIALIZED", " ", "VIEW", " ">> \o mv \o <<" ", "TO", " ">> \o dest
      \o <<" ", "AS", " ", "SELECT", " ", "*", " ", "FROM", " ">> \o src

\* CREATE TABLE <t> (x) ENGINE
CreateTable(t) ==
    <<"CREATE", " ", "TABLE", " ">> \o t \o <<" ", "(x)", " ", "ENGINE">>

\* CREATE MATERIALIZED VIEW <mv> TO <dest> AS SELECT * FROM <src> WHERE x
CreateMVWhere(mv, dest, src) == CreateMV(mv, dest, src) \o <<" ", "WHERE", " ", "x">>

\* the statement of the view my-view of app: ClickHouse quotes a name that is
\* no plain identifier
CreateMVQuoted ==
    CreateMV(<<"app", ".", Backtick, "my-view", Backtick>>, <<"app", ".", "dest">>,
             <<"app", ".", "src">>)

CreateQueries ==
    { EmptyString,
      CreateMVWhere(<<"app", ".", "t">>, <<"app", ".", "dest">>, <<"app", ".", "src">>),
      CreateTable(<<"app", ".", "t">>),
      <<"CREATE", " ", "TABLE">>,
      CreateMV(<<"app", ".", "t">>, <<"app", ".", "dest">>, <<"app", ".", "src">>),
      CreateMVQuoted,
      \* no "FROM "
      <<"CREATE", " ", "MATERIALIZED", " ", "VIEW", " ", "app", ".", "t", " ", "TO", " ",
        "app", ".", "dest", " ", "AS", " ", "SELECT", " ", "1">>,
      \* five whitespace tokens, with "FROM "
      <<"CREATE", " ", "MATERIALIZED", " ", "VIEW", " ", "FROM", " ", "app", ".", "src">>,
      \* four whitespace tokens, with "FROM "
      <<"CREATE", " ", "VIEW", " ", "FROM", " ", "app", ".", "src">> }

\* (loading_dependencies_database, loading_dependencies_table)
LoadingDeps ==
    { << << >>, << >> >>,
      << << <<"app">> >>, << <<"src">> >> >>,
      << << <<"app">> >>, << >> >> }

\* the rows: the statement of a row names the row's table
ExtractInputs ==
    { r \in [ database : {App}, name : { <<"t">>, <<"my-view">> }, engine : Engines,
              engine_full : EngineFulls, create_table_query : CreateQueries,
              deps : LoadingDeps ] :
        (r.name = <<"my-view">>) <=> (r.create_table_query = CreateMVQuoted) }

ExtractCacheOf(r) ==
    extractRelationsFromQuery(r.database, r.name, r.engine, r.engine_full,
                              r.create_table_query, r.deps[1], r.deps[2])

ExtractLegacyOf(r) ==
    getTablesRelationsRow(r.database, r.name, r.engine, r.engine_full,
                          r.create_table_query, r.deps[1], r.deps[2])

NoOutput == [panic |-> FALSE, relations |-> << >>, listed |-> FALSE, icon |-> ""]

----------------------------------------------------------------------------
(* bounds and program constants *)

\* 5*time.Minute, in minutes
TTL == 5

\* the clock stops here
MaxTime == 5

\* the number of request goroutines
NumProcs == 2

\* the number of generations the cache is loaded with
MaxGen == 2

Procs == 1..NumProcs

\* the instants (in minutes) at which the clock is read: the last minute before
\* a multiple of the TTL, and the multiple
Instants == {t \in 0..MaxTime : t % TTL \in {0, TTL - 1}}

\* the zero time.Time of a new TableCache: further back than any TTL
ZeroTime == 0 - TTL

----------------------------------------------------------------------------
(* the cache's data *)

\* a Go map: a function on its set of keys
EmptyMap == << >>

MapSet(m, k, v) == (k :> v) @@ m

MapHas(m, k) == k \in DOMAIN m

\* allowedDatabase: the denylist of system databases
allowedDatabase(database) ==
    CASE database = EmptyString -> FALSE
      [] database = <<"system">> -> FALSE
      [] ToLower(database) = <<"information_schema">> -> FALSE
      [] database = <<"performance_schema">> -> FALSE
      [] database = <<"mysql">> -> FALSE
      [] OTHER -> TRUE

\* fmt.Sprintf("%.1f", n/d): the value in tenths, rounded
Tenths(n, d) == (n * 10 + d \div 2) \div d

Formatted(whole, tenths, unit) == [whole |-> whole, tenths |-> tenths, unit |-> unit]

\* formatRows
formatRows(rows) ==
    IF rows = << >> THEN Formatted(0, 0, "N/A")
    ELSE LET n == rows[1]
         IN  IF n < 1000 THEN Formatted(n, 0, "")
             ELSE IF n < 1000000
                  THEN Formatted(Tenths(n, 1000) \div 10, Tenths(n, 1000) % 10, "K")
             ELSE IF n < 1000000000
                  THEN Formatted(Tenths(n, 1000000) \div 10, Tenths(n, 1000000) % 10, "M")
             ELSE Formatted(Tenths(n, 1000000000) \div 10, Tenths(n, 1000000000) % 10, "B")

RECURSIVE BytesDiv(_, _, _)
\* the loop of formatBytes: <<div, exp>>
BytesDiv(n, div, exp) ==
    IF n >= 1024 THEN BytesDiv(n \div 1024, div * 1024, exp + 1) ELSE <<div, exp>>

\* formatBytes
formatBytes(bytes) ==
    IF bytes = << >> THEN Formatted(0, 0, "N/A")
    ELSE LET b == bytes[1]
         IN  IF b < 1024 THEN Formatted(b, 0, "B")
             ELSE LET de == BytesDiv(b \div 1024, 1024, 0)
                  IN  Formatted(Tenths(b, de[1]) \div 10, Tenths(b, de[1]) % 10,
                                <<"KB", "MB", "GB", "TB", "PB", "EB">>[de[2] + 1])

\* generateTableListContent: the label of a table in the database index
generateTableListContent(icon, tableName, totalRows, totalBytes) ==
    IF totalRows = << >>
    THEN [icon |-> icon, name |-> tableName, meta |-> << >>]
    ELSE [icon |-> icon, name |-> tableName,
          meta |-> << formatRows(totalRows), formatBytes(totalBytes) >>]

\* one row of system.tables, in the column order of the bulk query
Row(database, name, engine, engineFull, createQuery, totalRows, totalBytes, loadingDepsDB, loadingDepsTable) ==
    [ database |-> database, name |-> name, engine |-> engine,
      engine_full |-> engineFull, create_table_query |-> createQuery,
      total_rows |-> totalRows, total_bytes |-> totalBytes,
      loading_dependencies_database |-> loadingDepsDB,
      loading_dependencies_table |-> loadingDepsTable ]

\* the CachedTableData stored for a row (without LastUpdated, which nothing reads)
CachedTableData(r, icon) ==
    [ Name |-> r.name, Database |-> r.database, Engine |-> r.engine,
      EngineFullMeta |-> r.engine_full, CreateQuery |-> r.create_table_query,
      TotalRows |-> r.total_rows, TotalBytes |-> r.total_bytes,
      LoadingDependenciesDatabase |-> r.loading_dependencies_database,
      LoadingDependenciesTable |-> r.loading_dependencies_table,
      Icon |-> icon ]

\* the bulk query of refreshTableCache: WHERE database NOT IN (...) ORDER BY
\* database, name.  The warehouses of the model list their rows in that order.
BulkQuery(w) ==
    SelectSeq(w, LAMBDA r : r.database \notin
        { <<"system">>, <<"information_schema">>, <<"performance_schema">>, <<"mysql">> })

\* the cache after make(...) of its three structures ("Clear existing cache")
ClearedCache(c) ==
    [c EXCEPT !.Tables = EmptyMap, !.Relations = << >>, !.DatabasesMap = EmptyMap]

\* the body of the loop of refreshTableCache for one scanned row
LoadRow(c, r, t) ==
    IF ~allowedDatabase(r.database) THEN c
    ELSE LET fullTableName == QualifiedName(r.database, r.name)
             icon == getEngineIcon(r.engine)
             inner == IF MapHas(c.DatabasesMap, r.database)
                      THEN c.DatabasesMap[r.database] ELSE EmptyMap
             relations == extractRelationsFromQuery(r.database, r.name, r.engine,
                              r.engine_full, r.create_table_query,
                              r.loading_dependencies_database,
                              r.loading_dependencies_table)
         IN  [c EXCEPT
                !.Tables = MapSet(c.Tables, fullTableName, CachedTableData(r, icon)),
                !.DatabasesMap = MapSet(c.DatabasesMap, r.database,
                                   MapSet(inner, r.name,
                                     generateTableListContent(icon, r.name,
                                                              r.total_rows, r.total_bytes))),
                !.Relations = c.Relations \o relations]

RECURSIVE LoadRows(_, _, _, _)
\* the loop of refreshTableCache over the first k rows
LoadRows(c, rows, k, t) ==
    IF k = 0 THEN c ELSE LoadRow(LoadRows(c, rows, k - 1, t), rows[k], t)

\* time.Since(c.cache.LastRefresh) < 5*time.Minute && len(c.cache.Tables) > 0
CacheIsFresh(c, t) ==
    /\ t - c.LastRefresh < TTL
    /\ Cardinality(DOMAIN c.Tables) > 0

\* the cache of NewClickHouseClient
NewCache ==
    [Tables |-> EmptyMap, Relations |-> << >>, DatabasesMap |-> EmptyMap,
     LastRefresh |-> ZeroTime]

\* the three structures of a generation
CacheData(c) == [Tables |-> c.Tables, Relations |-> c.Relations,
                 DatabasesMap |-> c.DatabasesMap]

----------------------------------------------------------------------------
(* the read operations on the cache's data *)

\* generateTableNodeContent: the display text of a node
generateTableNodeContent(tables, table) ==
    IF MapHas(tables, table) /\ tables[table].TotalRows # << >>
    THEN [name |-> table,
          meta |-> << formatRows(tables[table].TotalRows),
                      formatBytes(tables[table].TotalBytes) >>]
    ELSE [name |-> table, meta |-> << >>]

\* city.Hash32 of a name: a library function, collision-free on the names of the model
Hash32(s) == <<"#">> \o s

Deref(ptr) == IF ptr = << >> THEN 0 ELSE ptr[1]

RECURSIVE SumOver(_, _, _)
\* the sum of a counter over the tables of keys, nil counting 0 (the row and byte
\* counts of a warehouse stay far below the 2^64 at which the uint64 sum wraps)
SumOver(keys, tables, field) ==
    IF keys = {} THEN 0
    ELSE LET k == CHOOSE x \in keys : TRUE
         IN  Deref(tables[k][field]) + SumOver(keys \ {k}, tables, field)

\* a variant of GetDatabaseStats that passes over a table without a row count
DatabaseStatsSkipAbsent(tables, dbName) ==
    LET keys == {k \in DOMAIN tables : tables[k].Database = dbName /\ tables[k].TotalRows # << >>}
        engines == {tables[k].Engine : k \in keys}
        of(e) == {k \in keys : tables[k].Engine = e}
    IN  [ Database |-> dbName,
          TotalTables |-> Cardinality(keys),
          TotalRows |-> SumOver(keys, tables, "TotalRows"),
          TotalBytes |-> SumOver(keys, tables, "TotalBytes"),
          EngineCounts |-> [e \in engines |->
               [Count |-> Cardinality(of(e)),
                TotalRows |-> SumOver(of(e), tables, "TotalRows"),
                TotalBytes |-> SumOver(of(e), tables, "TotalBytes")]] ]

\* a variant of GetDatabaseStats that does not skip the other databases' tables
DatabaseStatsAll(tables, dbName) ==
    LET keys == DOMAIN tables
        engines == {tables[k].Engine : k \in keys}
        of(e) == {k \in keys : tables[k].Engine = e}
    IN  [ Database |-> dbName,
          TotalTables |-> Cardinality(keys),
          TotalRows |-> SumOver(keys, tables, "TotalRows"),
          TotalBytes |-> SumOver(keys, tables, "TotalBytes"),
          EngineCounts |-> [e \in engines |->
               [Count |-> Cardinality(of(e)),
                TotalRows |-> SumOver(of(e), tables, "TotalRows"),
                TotalBytes |-> SumOver(of(e), tables, "TotalBytes")]] ]

\* the scan of GetDatabaseStats over the table map
DatabaseStats(tables, dbName) ==
    LET keys == {k \in DOMAIN tables : tables[k].Database = dbName}
        engines == {tables[k].Engine : k \in keys}
        of(e) == {k \in keys : tables[k].Engine = e}
    IN  [ Database |-> dbName,
          TotalTables |-> Cardinality(keys),
          TotalRows |-> SumOver(keys, tables, "TotalRows"),
          TotalBytes |-> SumOver(keys, tables, "TotalBytes"),
          EngineCounts |-> [e \in engines |->
               [Count |-> Cardinality(of(e)),
                TotalRows |-> SumOver(of(e), tables, "TotalRows"),
                TotalBytes |-> SumOver(of(e), tables, "TotalBytes")]] ]

----------------------------------------------------------------------------
(* the traversal of GenerateMermaidSchema *)

\* the condition of getRelationsNext's loop body alone: getRelationsBack's
\* loop body never runs
MatchesForwardOnly(fn, rel, table) ==
    fn = "next" /\ rel.DependsOnTable = table /\ table # EmptyString

\* the condition of the loop body of getRelationsNext / getRelationsBack
Matches(fn, rel, table) ==
    IF fn = "next"
    THEN rel.DependsOnTable = table /\ table # EmptyString
    ELSE rel.Table = table /\ rel.DependsOnTable # EmptyString

RECURSIVE NextMatch(_, _, _, _)
\* the next index from i at which the loop body runs; 0 when the loop ends
NextMatch(fn, relations, table, i) ==
    IF i > Len(relations) THEN 0
    ELSE IF Matches(fn, relations[i], table) THEN i
    ELSE NextMatch(fn, relations, table, i + 1)

\* a call of getRelationsNext ("next") or getRelationsBack ("back") on a table,
\* standing at index i of its loop
Frame(fn, table, i) == [fn |-> fn, table |-> table, i |-> i]

RECURSIVE Unwind(_, _)
\* run the calls on the stack up to the next loop body: a frame whose loop has
\* no further match returns
Unwind(stack, relations) ==
    IF stack = << >> THEN << >>
    ELSE LET top == stack[Len(stack)]
             j == NextMatch(top.fn, relations, top.table, top.i)
         IN  IF j = 0
             THEN Unwind(SubSeq(stack, 1, Len(stack) - 1), relations)
             ELSE SubSeq(stack, 1, Len(stack) - 1) \o << Frame(top.fn, top.table, j) >>

\* GenerateMermaidSchema: getRelationsNext on the root, then getRelationsBack
StartWalk(fn, relations, root) == Unwind(<< Frame(fn, root, 1) >>, relations)

\* the mermaidRow of a relation: both ids and both display texts
MermaidRow(rel, depContent, relContent) ==
    [ src |-> Hash32(rel.DependsOnTable), srcContent |-> depContent,
      dst |-> Hash32(rel.Table), dstContent |-> relContent ]

\* The goroutine's stack holds a call chain longer than any chain of distinct
\* edges: a table is met again below itself, and since nothing but the table
\* decides the recursion, it never ends (Go's runtime aborts the process with
\* "stack overflow").
RecursesForever(stack, relations) == Len(stack) > Len(relations) + 1

----------------------------------------------------------------------------
(* the warehouses of the cache specification *)

TableA == <<"a">>
TableB == <<"b">>
TableD == <<"d">>
TableS == <<"s">>

\* Distributed('c','<db>','<table>',rand())
EngineFullTo(db, table) ==
    <<"Distributed(", "'", "c", "'", ",", "'">> \o db \o <<"'", ",", "'">> \o table
      \o <<"'", ",rand())">>

MergeTreeRow(db, name, rows, bytes) ==
    Row(db, name, <<"MergeTree">>, <<"MergeTree">>,
        CreateTable(QualifiedName(db, name)), rows, bytes, << >>, << >>)

DistributedRow(db, name, toDb, toTable) ==
    Row(db, name, <<"Distributed">>, EngineFullTo(toDb, toTable),
        CreateTable(QualifiedName(db, name)), << >>, << >>, << >>, << >>)

SystemRow(db) ==
    Row(db, <<"tables">>, <<"SystemTables">>, <<"SystemTables">>, EmptyString,
        << >>, << >>, << >>, << >>)

\* only the warehouse's own catalogs
WarehouseEmpty == << SystemRow(<<"INFORMATION_SCHEMA">>), SystemRow(<<"system">>) >>

\* two local tables, a distributed proxy of one and a proxy of a catalog table
WarehouseProxy ==
    << MergeTreeRow(App, TableA, <<10>>, <<2048>>), MergeTreeRow(App, TableB, <<20>>, <<512>>),
       DistributedRow(App, TableD, App, TableA),
       DistributedRow(App, TableS, <<"system">>, <<"tables">>), SystemRow(<<"system">>) >>

\* two proxies of each other, and a proxy of itself
WarehouseCycle ==
    << DistributedRow(App, TableA, App, TableD), DistributedRow(App, TableD, App, TableA),
       DistributedRow(App, TableS, App, TableS) >>

Warehouses == { WarehouseEmpty, WarehouseProxy, WarehouseCycle }

----------------------------------------------------------------------------
(* the request goroutines *)

Ops == { "GetDatabases", "GetDatabaseStats", "GenerateMermaidSchema", "getTableFromCache" }

\* the databases a request for statistics names: one with tables, one unknown
ArgDatabases == { App, <<"nodb">> }

\* the tables a request names
ArgTables == { TableA, TableS }

\* a goroutine between two requests
IdleProc ==
    [ pc |-> "idle", op |-> "", db |-> EmptyString, table |-> EmptyString,
      relations |-> << >>, phase |-> "", stack |-> << >>, seen |-> {}, sb |-> << >>,
      root |-> << >>, err |-> "", value |-> << >>,
      obs |-> {}, failedWarm |-> FALSE, waited |-> FALSE ]

\* the data a read under the lock finds in the cache
Generation == CacheData(cache)

\* Go's runtime has aborted the process
Crashed == \E p \in Procs : procs[p].pc = "overflow"

\* var TableRelations, DatabasesData, TableMetadata: all nil (a nil slice is << >>)
NilLegacy ==
    [TableRelations |-> << >>, DatabasesDataNil |-> TRUE, TableMetadataNil |-> TRUE,
     loadedAt |-> ZeroTime]

\* no whole-database schema request is being served
IdleRequest ==
    [ pc |-> "idle", db |-> EmptyString, engineFilters |-> << >>, tablesMap |-> EmptyMap,
      tablesRelations |-> << >>, relationsAt |-> ZeroTime, checkedAt |-> ZeroTime,
      tableEngines |-> EmptyMap, nodes |-> {}, edges |-> {}, err |-> "",
      includeMetadata |-> TRUE, freshQueries |-> {} ]

\* what the adapter specification holds: the input (a row of system.tables, a
\* line of a text-protocol response, or a statement and its arguments), and
\* what each adapter has made of it so far
AdapterState(kind, row, line, statement, args) ==
    [ kind |-> kind, row |-> row, line |-> line, statement |-> statement, args |-> args,
      native |-> << >>, http |-> << >>, sent |-> << >> ]

\* the adapter specification is not running
IdleAdapter == AdapterState("off", << >>, << >>, << >>, << >>)

InitCache ==
    /\ legacy = NilLegacy
    /\ req = IdleRequest
    /\ cache = NewCache
    /\ mutex = [writer |-> 0, readers |-> {}]
    /\ now = 0
    /\ procs = [p \in Procs |-> IdleProc]
    /\ history = [gen |-> 0, warm |-> FALSE, good |-> CacheData(NewCache), completed |-> {}]

Init ==
    /\ InitCache
    /\ adapter = IdleAdapter
    /\ ex = [stage |-> "off", row |-> << >>, out |-> NoOutput]

\* time passes, up to a later instant
Tick ==
    /\ ~Crashed
    /\ now' \in {t \in Instants : t > now}
    /\ UNCHANGED <<cache, mutex, procs, history, ex, legacy, req, adapter>>

\* a request for one of the operations ops arrives (a schema request names one
\* of tables): every operation starts with refreshTableCache, which starts with
\* c.cache.mutex.Lock()
CallOf(p, ops, tables) ==
    /\ ~Crashed
    /\ procs[p].pc = "idle"
    /\ \E op \in ops :
         \E db \in (IF op = "GetDatabases" THEN {EmptyString}
                    ELSE IF op = "GetDatabaseStats" THEN ArgDatabases ELSE {App}) :
           \E table \in (IF op = "GenerateMermaidSchema" THEN tables
                         ELSE IF op = "getTableFromCache" THEN {TableA}
                         ELSE {EmptyString}) :
             procs' = [procs EXCEPT ![p] =
                          [IdleProc EXCEPT !.pc = "lock", !.op = op, !.db = db,
                                           !.table = table]]
    /\ UNCHANGED <<cache, mutex, now, history, ex, legacy, req, adapter>>

Call(p) == CallOf(p, Ops, ArgTables)

\* refreshTableCache: c.cache.mutex.Lock() returns
RefreshLock(p) ==
    /\ ~Crashed
    /\ procs[p].pc = "lock"
    /\ mutex.writer = 0
    /\ mutex.readers = {}
    /\ mutex' = [mutex EXCEPT !.writer = p]
    /\ procs' = [procs EXCEPT ![p].pc = "check"]
    /\ UNCHANGED <<cache, now, history, ex, legacy, req, adapter>>

\* refreshTableCache: the cache is fresh, return nil (and unlock)
RefreshFresh(p) ==
    /\ ~Crashed
    /\ procs[p].pc = "check"
    /\ CacheIsFresh(cache, now)
    /\ mutex' = [mutex EXCEPT !.writer = 0]
    /\ procs' = [procs EXCEPT ![p].pc = "rlock"]
    /\ UNCHANGED <<cache, now, history, ex, legacy, req, adapter>>

\* refreshTableCache: the cache is stale, c.conn.Query is called
RefreshQuery(p) ==
    /\ ~Crashed
    /\ procs[p].pc = "check"
    /\ ~CacheIsFresh(cache, now)
    /\ history.gen < MaxGen
    /\ procs' = [procs EXCEPT ![p].pc = "inflight"]
    /\ UNCHANGED <<cache, mutex, now, history, ex, legacy, req, adapter>>

\* the operation returns the error of refreshTableCache
FailedProc(p, kind) ==
    [procs EXCEPT ![p].pc = "done", ![p].err = kind, ![p].failedWarm = history.warm]

\* refreshTableCache: c.conn.Query returns an error
RefreshQueryError(p) ==
    /\ ~Crashed
    /\ procs[p].pc = "inflight"
    /\ mutex' = [mutex EXCEPT !.writer = 0]
    /\ procs' = FailedProc(p, "query")
    /\ UNCHANGED <<cache, now, history, ex, legacy, req, adapter>>

\* refreshTableCache: the query returned the rows of the warehouse as it is now,
\* the cache is cleared, k rows are loaded and then rows.Scan ("scan") or rows.Err ("iterate") reports an error
RefreshLoadErrorFrom(p, warehouses) ==
    /\ ~Crashed
    /\ procs[p].pc = "inflight"
    /\ \E warehouse \in warehouses :
         LET rows == BulkQuery(warehouse)
         IN  \E k \in 0..Len(rows) : \E kind \in {"scan", "iterate"} :
               /\ kind = "scan" => k < Len(rows)
               /\ cache' = LoadRows(ClearedCache(cache), rows, k, now)
               /\ procs' = FailedProc(p, kind)
    /\ mutex' = [mutex EXCEPT !.writer = 0]
    /\ history' = [history EXCEPT !.gen = @ + 1]
    /\ UNCHANGED <<now, ex, legacy, req, adapter>>

RefreshLoadError(p) == RefreshLoadErrorFrom(p, Warehouses)

\* refreshTableCache: the query returned rows, the cache is cleared and loaded
\* with all of them, LastRefresh is set
RefreshLoadFrom(p, warehouses) ==
    /\ ~Crashed
    /\ procs[p].pc = "inflight"
    /\ \E warehouse \in warehouses :
         LET rows == BulkQuery(warehouse)
             loaded == [LoadRows(ClearedCache(cache), rows, Len(rows), now)
                          EXCEPT !.LastRefresh = now]
         IN  /\ cache' = loaded
             /\ history' = [gen |-> history.gen + 1, warm |-> TRUE,
                            good |-> CacheData(loaded),
                            completed |-> history.completed \cup {CacheData(loaded)}]
    /\ mutex' = [mutex EXCEPT !.writer = 0]
    /\ procs' = [q \in Procs |->
                   IF q = p THEN [procs[p] EXCEPT !.pc = "rlock"]
                   ELSE IF procs[q].pc = "lock" THEN [procs[q] EXCEPT !.waited = TRUE]
                   ELSE procs[q]]
    /\ UNCHANGED <<now, ex, legacy, req, adapter>>

RefreshLoad(p) == RefreshLoadFrom(p, Warehouses)

\* c.cache.mutex.RLock() returns
ReadLock(p) ==
    /\ ~Crashed
    /\ procs[p].pc = "rlock"
    /\ mutex.writer = 0
    /\ mutex' = [mutex EXCEPT !.readers = @ \cup {p}]
    /\ procs' = [procs EXCEPT ![p].pc = "reading"]
    /\ UNCHANGED <<cache, now, history, ex, legacy, req, adapter>>

\* what the operation reads under the read lock from the cache's data c
ReadValue(c, op, db, table) ==
    CASE op = "GetDatabases" -> c.DatabasesMap
      [] op = "GetDatabaseStats" -> DatabaseStats(c.Tables, db)
      [] op = "getTableFromCache" ->
           IF MapHas(c.Tables, QualifiedName(db, table))
           THEN c.Tables[QualifiedName(db, table)] ELSE << >>
      [] OTHER -> << >>

\* the read under the read lock without the RUnlock that follows it, so that
\* the operation's next Lock or RLock is taken while the read lock is held
ReadKeepsLock(p) ==
    /\ ~Crashed
    /\ procs[p].pc = "reading"
    /\ LET me == procs[p]
       IN  procs' = [procs EXCEPT ![p] =
             IF me.op = "GenerateMermaidSchema"
             THEN [me EXCEPT !.pc = "node", !.relations = cache.Relations,
                             !.obs = @ \cup {Generation}]
             ELSE [me EXCEPT !.pc = "done",
                             !.value = ReadValue(cache, me.op, me.db, me.table),
                             !.err = IF me.op = "getTableFromCache"
                                        /\ ~MapHas(cache.Tables, QualifiedName(me.db, me.table))
                                     THEN "not found" ELSE "",
                             !.obs = @ \cup {Generation}]]
    /\ UNCHANGED <<cache, mutex, now, history, ex, legacy, req, adapter>>

\* the read under the read lock, and RUnlock
Read(p) ==
    /\ ~Crashed
    /\ procs[p].pc = "reading"
    /\ mutex' = [mutex EXCEPT !.readers = @ \ {p}]
    /\ LET me == procs[p]
       IN  procs' = [procs EXCEPT ![p] =
             IF me.op = "GenerateMermaidSchema"
             THEN [me EXCEPT !.pc = "node", !.relations = cache.Relations,
                             !.obs = @ \cup {Generation}]
             ELSE [me EXCEPT !.pc = "done",
                             !.value = ReadValue(cache, me.op, me.db, me.table),
                             !.err = IF me.op = "getTableFromCache"
                                        /\ ~MapHas(cache.Tables, QualifiedName(me.db, me.table))
                                     THEN "not found" ELSE "",
                             !.obs = @ \cup {Generation}]]
    /\ UNCHANGED <<cache, now, history, ex, legacy, req, adapter>>

\* where GenerateMermaidSchema stands once the calls on the stack have run up
\* to the next loop body: in a loop body, past the stack's limit, starting
\* getRelationsBack after getRelationsNext has returned, or returning
Walking(me, stack) ==
    LET back == StartWalk("back", me.relations, QualifiedName(me.db, me.table))
    IN  IF stack # << >>
        THEN [me EXCEPT !.pc = IF RecursesForever(stack, me.relations)
                               THEN "overflow" ELSE "walk",
                        !.stack = stack]
        ELSE IF me.phase = "next" /\ back # << >>
        THEN [me EXCEPT !.pc = "walk", !.phase = "back", !.stack = back]
        ELSE [me EXCEPT !.pc = "done", !.phase = "", !.stack = << >>,
                        !.value = [root |-> me.root, rows |-> me.sb]]

\* GenerateMermaidSchema: the root's node text (generateTableNodeContent takes
\* the read lock on its own), then the first call of getRelationsNext
RootNode(p) ==
    /\ ~Crashed
    /\ procs[p].pc = "node"
    /\ mutex.writer = 0
    /\ LET me == procs[p]
           table == QualifiedName(me.db, me.table)
           withRoot == [me EXCEPT !.root = generateTableNodeContent(cache.Tables, table),
                                  !.phase = "next",
                                  !.obs = @ \cup {Generation}]
       IN  procs' = [procs EXCEPT ![p] =
                       Walking(withRoot, StartWalk("next", me.relations, table))]
    /\ UNCHANGED <<cache, mutex, now, history, ex, legacy, req, adapter>>

\* one loop body of getRelationsNext / getRelationsBack: both node texts (each
\* under the read lock), the row written unless seen, the recursive call
WalkStep(p) ==
    /\ ~Crashed
    /\ procs[p].pc = "walk"
    /\ mutex.writer = 0
    /\ LET me == procs[p]
           top == me.stack[Len(me.stack)]
           rel == me.relations[top.i]
           row == MermaidRow(rel, generateTableNodeContent(cache.Tables, rel.DependsOnTable),
                             generateTableNodeContent(cache.Tables, rel.Table))
           callee == IF top.fn = "next" THEN rel.Table ELSE rel.DependsOnTable
           stack == SubSeq(me.stack, 1, Len(me.stack) - 1)
                      \o << Frame(top.fn, top.table, top.i + 1), Frame(top.fn, callee, 1) >>
           written == [me EXCEPT !.seen = @ \cup {row},
                                 !.sb = IF row \in me.seen THEN @ ELSE Append(@, row),
                                 !.obs = @ \cup {Generation}]
       IN  procs' = [procs EXCEPT ![p] = Walking(written, Unwind(stack, me.relations))]
    /\ UNCHANGED <<cache, mutex, now, history, ex, legacy, req, adapter>>

\* the response is written
Return(p) ==
    /\ ~Crashed
    /\ procs[p].pc = "done"
    /\ procs' = [procs EXCEPT ![p] = IdleProc]
    /\ UNCHANGED <<cache, mutex, now, history, ex, legacy, req, adapter>>

Next ==
    \/ Tick
    \/ \E p \in Procs :
         \/ Call(p)
         \/ RefreshLock(p)
         \/ RefreshFresh(p)
         \/ RefreshQuery(p)
         \/ RefreshQueryError(p)
         \/ RefreshLoadError(p)
         \/ RefreshLoad(p)
         \/ ReadLock(p)
         \/ Read(p)
         \/ RootNode(p)
         \/ WalkStep(p)
         \/ Return(p)

Spec == Init /\ [][Next]_vars

----------------------------------------------------------------------------
(* the walk specification: GenerateMermaidSchema over an edge list that holds
   one pair twice, while the warehouse's row counts change *)

DictionaryRow(db, name, depDb, depTable, rows, bytes) ==
    Row(db, name, <<"Dictionary">>, <<"Dictionary">>, CreateTable(QualifiedName(db, name)),
        rows, bytes, <<depDb>>, <<depTable>>)

\* a dictionary a that loads from d, and d, a distributed proxy of a: both
\* extraction rules give the edge app.d -> app.a
WarehouseTwice ==
    << DictionaryRow(App, TableA, App, TableD, <<10>>, <<2048>>),
       DistributedRow(App, TableD, App, TableA) >>

\* the same tables after one more row was written to a
WarehouseTwiceGrown ==
    << DictionaryRow(App, TableA, App, TableD, <<11>>, <<2048>>),
       DistributedRow(App, TableD, App, TableA) >>

\* names with a dot: table x.a of database app, and table a of database app.x
WarehouseDotted ==
    << MergeTreeRow(App, <<"x", ".", "a">>, <<10>>, <<2048>>),
       MergeTreeRow(<<"app", ".", "x">>, TableA, <<20>>, <<512>>) >>

TableP == <<"p">>

\* d between its parent p and its child a, with p's other child s and a's
\* other parent b: the edges p -> d, d -> a, p -> s and b -> a
WarehouseSiblings ==
    << DictionaryRow(App, TableD, App, TableP, <<10>>, <<2048>>),
       DictionaryRow(App, TableA, App, TableD, <<10>>, <<2048>>),
       DictionaryRow(App, TableS, App, TableP, <<10>>, <<2048>>),
       DistributedRow(App, TableB, App, TableA) >>

WalkWarehouses == { WarehouseTwice, WarehouseTwiceGrown, WarehouseDotted, WarehouseSiblings }

\* a step of goroutine p
WalkRequest(p) ==
    \/ CallOf(p, {"GenerateMermaidSchema"}, {TableD})
    \/ RefreshLock(p)
    \/ RefreshFresh(p)
    \/ RefreshQuery(p)
    \/ RefreshQueryError(p)
    \/ RefreshLoadErrorFrom(p, WalkWarehouses)
    \/ RefreshLoadFrom(p, WalkWarehouses)
    \/ ReadLock(p)
    \/ Read(p)
    \/ RootNode(p)
    \/ WalkStep(p)
    \/ Return(p)

NextWalk ==
    \/ Tick
    \/ \E p \in Procs : WalkRequest(p)

SpecWalk == Init /\ [][NextWalk]_vars

\* a step of goroutine p in the specification of the lock: the operation that
\* takes the lock more than once on one call path, over an acyclic edge list
LockRequest(p) ==
    \/ CallOf(p, {"GenerateMermaidSchema"}, {TableD})
    \/ RefreshLock(p)
    \/ RefreshFresh(p)
    \/ RefreshQuery(p)
    \/ RefreshQueryError(p)
    \/ RefreshLoadErrorFrom(p, {WarehouseTwice})
    \/ RefreshLoadFrom(p, {WarehouseTwice})
    \/ ReadLock(p)
    \/ Read(p)
    \/ RootNode(p)
    \/ WalkStep(p)
    \/ Return(p)

NextLock ==
    \/ Tick
    \/ \E p \in Procs : LockRequest(p)

\* The specification of the lock, with Go's scheduling: a goroutine that can
\* run does run, the adapter's query returns, and a goroutine that waits for
\* the RWMutex gets it if it is free again and again (sync.RWMutex lets neither
\* a waiting writer nor a waiting reader starve).
SpecLock == Init /\ [][NextLock]_vars /\ \A p \in Procs : SF_vars(LockRequest(p))

----------------------------------------------------------------------------
(* the extraction specification: both extraction paths on one row *)

InitExtract ==
    /\ InitCache
    /\ adapter = IdleAdapter
    /\ ex \in [ stage : {"input"}, row : ExtractInputs, out : {NoOutput} ]

\* the cache refresh's extraction of one row
ExtractForCache ==
    /\ ex.stage = "input"
    /\ ex' = [ex EXCEPT !.stage = "cache",
                        !.out = LegacyRow(FALSE, ExtractCacheOf(ex.row), TRUE,
                                          getEngineIcon(ex.row.engine))]
    /\ UNCHANGED <<cache, mutex, now, procs, history, legacy, req, adapter>>

\* the whole-database schema's extraction of one row
ExtractForDatabaseSchema ==
    /\ ex.stage = "input"
    /\ ex' = [ex EXCEPT !.stage = "legacy", !.out = ExtractLegacyOf(ex.row)]
    /\ UNCHANGED <<cache, mutex, now, procs, history, legacy, req, adapter>>

NextExtract == ExtractForCache \/ ExtractForDatabaseSchema

SpecExtract == InitExtract /\ [][NextExtract]_vars

----------------------------------------------------------------------------
(* GenerateDatabaseMermaidSchema: the schema of a whole database *)

\* the latest instant of the whole-database schema specification
MaxSchemaTime == 10

\* the instants the specification's clock shows: those on either side of an
\* expiry of the TTL
SchemaInstants == {t \in 0..MaxSchemaTime : t % TTL \in {0, TTL - 1}}

TableM == <<"m">>

\* a local table and a table of the Memory engine
WarehouseMemory ==
    << MergeTreeRow(App, TableA, <<10>>, <<2048>>),
       Row(App, TableM, <<"Memory">>, <<"Memory">>, CreateTable(QualifiedName(App, TableM)),
           <<3>>, <<64>>, << >>, << >>) >>

\* what system.tables holds when a query of this specification reads it; each
\* lists its rows in an order that is sorted by name and by (database, name)
SchemaWarehouses == { WarehouseProxy, WarehouseCycle, WarehouseMemory }

\* the ?engines= parameters of a request: none, one kind, one kind in lower case
EngineFilters == { << >>, << <<"Distributed">> >>, << <<"mergetree">> >> }

\* what one call of refreshTableCache can do to the cache c at instant t when no
\* other goroutine runs: nothing when the cache is fresh; otherwise a failed
\* query, a load that stops with an error after k rows, or a full load
RefreshOutcomes(c, t) ==
    IF CacheIsFresh(c, t)
    THEN { [cache |-> c, err |-> ""] }
    ELSE { [cache |-> c, err |-> "query"] }
         \cup UNION { LET rows == BulkQuery(w)
                      IN  { [cache |-> LoadRows(ClearedCache(c), rows, k, t), err |-> "scan"] :
                              k \in 0..(Len(rows) - 1) }
                          \cup { [cache |-> [LoadRows(ClearedCache(c), rows, Len(rows), t)
                                               EXCEPT !.LastRefresh = t],
                                  err |-> ""] } : w \in SchemaWarehouses }

\* getTablesRelations answers from the package variables
LegacyCached(l) ==
    /\ l.TableRelations # << >>
    /\ ~l.DatabasesDataNil
    /\ ~l.TableMetadataNil

\* the row of the loop of getTablesRelations, for a row of system.tables
LegacyRowOf(r) ==
    getTablesRelationsRow(r.database, r.name, r.engine, r.engine_full,
                          r.create_table_query, r.loading_dependencies_database,
                          r.loading_dependencies_table)

RECURSIVE LegacyRelations(_, _)
\* the slice "tables" of getTablesRelations after the first k rows
LegacyRelations(rows, k) ==
    IF k = 0 THEN << >>
    ELSE IF allowedDatabase(rows[k].database)
         THEN LegacyRelations(rows, k - 1) \o LegacyRowOf(rows[k]).relations
         ELSE LegacyRelations(rows, k - 1)

\* the loop of getTablesRelations panics in row k (index out of range)
LegacyPanics(rows, k) == allowedDatabase(rows[k].database) /\ LegacyRowOf(rows[k]).panic

\* the package variables once the loop of getTablesRelations has got to row k:
\* TableMetadata is made before the loop, DatabasesData in the first allowed row
LegacyMaps(l, rows, k) ==
    [l EXCEPT !.TableMetadataNil = FALSE,
              !.DatabasesDataNil = @ /\ \A i \in 1..k : ~allowedDatabase(rows[i].database)]

\* what one call of getTablesRelations can do at instant t when the package
\* variables do not answer: a failed query, an error or a panic in row k, or
\* TableRelations = tables (nil when no row appended a relation)
LegacyOutcomes(l, t) ==
    { [legacy |-> l, relations |-> << >>, err |-> "query"] }
    \cup UNION { LET rows == w
                     sound(k) == \A i \in 1..k : ~LegacyPanics(rows, i)
                 IN  { [legacy |-> LegacyMaps(l, rows, k), relations |-> << >>, err |-> "scan"] :
                         k \in {j \in 0..(Len(rows) - 1) : sound(j)} }
                     \cup { [legacy |-> LegacyMaps(l, rows, k), relations |-> << >>,
                             err |-> "panic"] :
                              k \in {j \in 1..Len(rows) : sound(j - 1) /\ LegacyPanics(rows, j)} }
                     \cup { [legacy |-> [LegacyMaps(l, rows, Len(rows)) EXCEPT
                                           !.TableRelations = LegacyRelations(rows, Len(rows)),
                                           !.loadedAt = t],
                             relations |-> LegacyRelations(rows, Len(rows)), err |-> ""] :
                              k \in {j \in {Len(rows)} : sound(j)} } : w \in SchemaWarehouses }

\* getTableEngines: the engine of every table of the database, by table name
getTableEngines(tables, dbName) ==
    LET keys == {k \in DOMAIN tables : tables[k].Database = dbName}
    IN  [n \in {tables[k].Name : k \in keys} |->
           tables[CHOOSE k \in keys : tables[k].Name = n].Engine]

\* containsEngine: strings.EqualFold of the engine with one of the filters
containsEngine(filters, engineType) ==
    \/ Len(filters) = 0
    \/ \E i \in 1..Len(filters) : ToLower(filters[i]) = ToLower(engineType)

\* the symbols of a backtick, of a backslash, and of a backslash and the dot it escapes
Backslash == "backslash"
EscapedDot == "backslash."

\* strings.Contains(name, EscapedDot)
IsEscaped(name) == \E i \in 1..Len(name) : name[i] = EscapedDot

\* strings.ReplaceAll(s, old, ""), and a backslash also goes from an escaped dot
Strip(s, old) ==
    LET kept == SelectSeq(s, LAMBDA c : c # old)
    IN  [i \in 1..Len(kept) |-> IF old = Backslash /\ kept[i] = EscapedDot THEN "." ELSE kept[i]]

\* the name is one of the requested database, in the plain or the escaped format
InDatabase(name, dbName) ==
    HasPrefix(name, dbName \o <<".">>) \/ HasPrefix(name, dbName \o <<EscapedDot>>)

\* cleanTableName: the name without the database prefix, backslashes and backticks
CleanTableName(name, dbName) ==
    LET rest == SubSeq(name, Len(dbName) + 2, Len(name))
    IN  Strip(IF HasPrefix(name, dbName \o <<EscapedDot>>) THEN Strip(rest, Backslash) ELSE rest, Backtick)

\* the names the loop over the relations looks at: Table, then DependsOnTable
RelationNames(relations) ==
    [i \in 1..(2 * Len(relations)) |->
       IF i % 2 = 1 THEN relations[(i + 1) \div 2].Table
       ELSE relations[i \div 2].DependsOnTable]

RECURSIVE UniqueTables(_, _, _, _)
\* uniqueTables after the first k names: clean table name -> relation table name
UniqueTables(names, k, dbName, tablesMap) ==
    IF k = 0 THEN EmptyMap
    ELSE LET before == UniqueTables(names, k - 1, dbName, tablesMap)
             name == names[k]
             clean == CleanTableName(name, dbName)
         IN  IF name = EmptyString \/ ~InDatabase(name, dbName) \/ ~MapHas(tablesMap, clean)
             THEN before
             ELSE IF ~MapHas(before, clean) THEN MapSet(before, clean, name)
             ELSE IF IsEscaped(name) /\ ~IsEscaped(before[clean])
             THEN MapSet(before, clean, name)
             ELSE before

\* the display text of a node: nodeContent is first set by includeMetadata, to
\* generateTableNodeContent(relationTableName) or to the clean name, and then
\* set again to "<displayName> (<engineType>)"
NodeContent(includeMetadata, tables, cleanTableName, relationTableName, engineType) ==
    LET displayName == cleanTableName
        nodeContent == IF includeMetadata
                       THEN generateTableNodeContent(tables, relationTableName)
                       ELSE [name |-> cleanTableName, meta |-> << >>]
        simplified == [name |-> displayName, engine |-> engineType, meta |-> << >>]
    IN  simplified

\* the node written for a table: its id, its display name, its engine, its text
Node(cleanTableName, relationTableName, engineType, content) ==
    [id |-> Hash32(relationTableName), table |-> cleanTableName, engine |-> engineType,
     content |-> content]

\* the engine the node loop finds for a table
EngineType(tableEngines, cleanTableName) ==
    IF MapHas(tableEngines, cleanTableName) THEN tableEngines[cleanTableName]
    ELSE <<"Unknown">>

\* the clean names of the tables that pass the engine filter
Rendered(unique, tableEngines, engineFilters) ==
    {n \in DOMAIN unique : containsEngine(engineFilters, EngineType(tableEngines, n))}

\* the loop body of getDatabaseRelationsNext / getDatabaseRelationsBack runs
\* its inner block: the relation matches and both its tables are processed
DatabaseMatchesSourceOnly(fn, rel, table, processedTables) ==
    /\ Matches(fn, rel, table)
    /\ rel.DependsOnTable \in processedTables

DatabaseMatches(fn, rel, table, processedTables) ==
    /\ Matches(fn, rel, table)
    /\ rel.DependsOnTable \in processedTables
    /\ rel.Table \in processedTables

\* an edge line: the relationship type is "-->|depends|" for every icon the
\* extraction gives, so the two ids make the line and the key of seenRelationships
EdgeLine(rel) == [src |-> Hash32(rel.DependsOnTable), dst |-> Hash32(rel.Table)]

RECURSIVE getDatabaseRelations(_, _, _, _)
\* getDatabaseRelationsNext ("next") / getDatabaseRelationsBack ("back") called
\* with the chain of tables in stack: the lines it and its callees write, and
\* whether the chain of calls never ends
getDatabaseRelations(fn, relations, stack, processedTables) ==
    IF RecursesForever(stack, relations)
    THEN [lines |-> {}, overflow |-> TRUE]
    ELSE LET table == stack[Len(stack)]
             hits == {i \in 1..Len(relations) :
                        DatabaseMatches(fn, relations[i], table, processedTables)}
             callee(i) == IF fn = "next" THEN relations[i].Table
                          ELSE relations[i].DependsOnTable
             calls == {getDatabaseRelations(fn, relations, Append(stack, callee(i)),
                                            processedTables) : i \in hits}
         IN  [lines |-> {EdgeLine(relations[i]) : i \in hits}
                          \cup UNION {c.lines : c \in calls},
              overflow |-> \E c \in calls : c.overflow]

\* the rendering of GenerateDatabaseMermaidSchema from what the request has read
Render(r, tables) ==
    LET unique == UniqueTables(RelationNames(r.tablesRelations),
                               2 * Len(r.tablesRelations), r.db, r.tablesMap)
        rendered == Rendered(unique, r.tableEngines, r.engineFilters)
        processedTables == {unique[n] : n \in rendered}
        walks == {getDatabaseRelations(fn, r.tablesRelations, <<t>>, processedTables) :
                    fn \in {"next", "back"}, t \in processedTables}
    IN  [nodes |-> {Node(n, unique[n], EngineType(r.tableEngines, n),
                         NodeContent(r.includeMetadata, tables, n, unique[n],
                                     EngineType(r.tableEngines, n))) : n \in rendered},
         edges |-> UNION {w.lines : w \in walks},
         overflow |-> \E w \in walks : w.overflow]

\* the request's goroutine is gone with the process
SchemaCrashed == req.pc = "overflow"

InitDatabaseSchema ==
    /\ InitCache
    /\ adapter = IdleAdapter
    /\ ex = [stage |-> "off", row |-> << >>, out |-> NoOutput]

\* time passes, up to a later instant
SchemaTick ==
    /\ ~SchemaCrashed
    /\ now' \in {t \in SchemaInstants : t > now}
    /\ UNCHANGED <<cache, mutex, procs, history, ex, legacy, req, adapter>>

\* GET /api/schema/database/:database arrives
SchemaCall ==
    /\ req.pc = "idle"
    /\ \E db \in ArgDatabases : \E filters \in EngineFilters : \E metadata \in BOOLEAN :
         req' = [IdleRequest EXCEPT !.pc = "databases", !.db = db, !.engineFilters = filters,
                                    !.includeMetadata = metadata]
    /\ UNCHANGED <<cache, mutex, now, procs, history, ex, legacy, adapter>>

\* the request fails with an error
SchemaFailed(kind) == [req EXCEPT !.pc = "done", !.err = kind]

\* c.GetDatabases() and the lookup of the database in its result
SchemaGetDatabases ==
    /\ req.pc = "databases"
    /\ \E o \in RefreshOutcomes(cache, now) :
         /\ cache' = o.cache
         /\ req' = IF o.err # "" THEN SchemaFailed(o.err)
                   ELSE IF ~MapHas(o.cache.DatabasesMap, req.db) THEN SchemaFailed("not found")
                   ELSE [req EXCEPT !.pc = "relations", !.checkedAt = now,
                                    !.tablesMap = o.cache.DatabasesMap[req.db]]
    /\ UNCHANGED <<mutex, now, procs, history, ex, legacy, adapter>>

\* c.getTablesRelations()
SchemaGetRelations ==
    /\ req.pc = "relations"
    /\ IF LegacyCached(legacy)
       THEN /\ req' = [req EXCEPT !.pc = "engines", !.tablesRelations = legacy.TableRelations,
                                  !.relationsAt = legacy.loadedAt]
            /\ UNCHANGED legacy
       ELSE \E o \in LegacyOutcomes(legacy, now) :
              /\ legacy' = o.legacy
              /\ LET asked == [req EXCEPT !.freshQueries =
                                IF CacheIsFresh(cache, now)
                                THEN @ \cup {"getTablesRelations"} ELSE @]
                 IN  req' = IF o.err # "" THEN [asked EXCEPT !.pc = "done", !.err = o.err]
                            ELSE [asked EXCEPT !.pc = "engines",
                                               !.tablesRelations = o.relations,
                                               !.relationsAt = now]
    /\ UNCHANGED <<cache, mutex, now, procs, history, ex, adapter>>

\* c.getTableEngines(dbName)
SchemaGetEngines ==
    /\ req.pc = "engines"
    /\ \E o \in RefreshOutcomes(cache, now) :
         /\ cache' = o.cache
         /\ req' = IF o.err # "" THEN SchemaFailed(o.err)
                   ELSE [req EXCEPT !.pc = "render",
                                    !.tableEngines = getTableEngines(o.cache.Tables, req.db)]
    /\ UNCHANGED <<mutex, now, procs, history, ex, legacy, adapter>>

\* the nodes, then the relationships: the diagram is complete, or the calls of
\* getDatabaseRelationsNext / getDatabaseRelationsBack never end
SchemaRender ==
    /\ req.pc = "render"
    /\ LET out == Render(req, cache.Tables)
       IN  req' = IF out.overflow THEN [req EXCEPT !.pc = "overflow"]
                  ELSE [req EXCEPT !.pc = "done", !.nodes = out.nodes, !.edges = out.edges]
    /\ UNCHANGED <<cache, mutex, now, procs, history, ex, legacy, adapter>>

\* the response is written
SchemaReturn ==
    /\ req.pc = "done"
    /\ req' = IdleRequest
    /\ UNCHANGED <<cache, mutex, now, procs, history, ex, legacy, adapter>>

NextDatabaseSchema ==
    \/ SchemaTick
    \/ SchemaCall
    \/ SchemaGetDatabases
    \/ SchemaGetRelations
    \/ SchemaGetEngines
    \/ SchemaRender
    \/ SchemaReturn

SpecDatabaseSchema == InitDatabaseSchema /\ [][NextDatabaseSchema]_vars


----------------------------------------------------------------------------
(* the adapters: NativeClient and HTTPClient behind ClickHouseDBClient *)

\* the symbols of a tab and of the two characters that stand for NULL in a
\* text-protocol response
Tab == "tab"
NullText == "backslashN"

DigitSymbols == <<"0", "1", "2", "3", "4", "5", "6", "7", "8", "9">>

RECURSIVE Digits(_)
\* a number in decimal, as the warehouse writes it
Digits(n) ==
    IF n < 10 THEN << DigitSymbols[n + 1] >>
    ELSE Digits(n \div 10) \o << DigitSymbols[(n % 10) + 1] >>

\* the value of a digit symbol; -1 for any other symbol
DigitValue(c) ==
    IF \E d \in 1..10 : DigitSymbols[d] = c
    THEN (CHOOSE d \in 1..10 : DigitSymbols[d] = c) - 1
    ELSE 0 - 1

RECURSIVE ParseUintAcc(_, _)
ParseUintAcc(field, acc) ==
    IF field = << >> THEN [ok |-> TRUE, val |-> acc]
    ELSE IF DigitValue(Head(field)) < 0 THEN [ok |-> FALSE, val |-> 0]
    ELSE ParseUintAcc(Tail(field), acc * 10 + DigitValue(Head(field)))

\* strconv.ParseUint(field, 10, 64) on the numbers of the model
ParseUint(field) ==
    IF field = << >> THEN [ok |-> FALSE, val |-> 0] ELSE ParseUintAcc(field, 0)

\* strings.HasSuffix(s, suffix)
HasSuffix(s, suffix) ==
    /\ Len(s) >= Len(suffix)
    /\ SubSeq(s, Len(s) - Len(suffix) + 1, Len(s)) = suffix

RECURSIVE TrimLeft(_, _)
TrimLeft(s, cutset) ==
    IF s # << >> /\ Head(s) \in cutset THEN TrimLeft(Tail(s), cutset) ELSE s

RECURSIVE TrimRight(_, _)
TrimRight(s, cutset) ==
    IF s # << >> /\ s[Len(s)] \in cutset THEN TrimRight(SubSeq(s, 1, Len(s) - 1), cutset)
    ELSE s

\* strings.Trim(s, cutset)
Trim(s, cutset) == TrimRight(TrimLeft(s, cutset), cutset)

RECURSIVE Join(_, _)
\* strings.Join(parts, sep)
Join(parts, sep) ==
    IF parts = << >> THEN << >>
    ELSE IF Len(parts) = 1 THEN parts[1]
    ELSE parts[1] \o sep \o Join(Tail(parts), sep)

\* the text of a Nullable(UInt64) column in a TabSeparated response
NullableText(ptr) == IF ptr = << >> THEN << NullText >> ELSE Digits(ptr[1])

\* the text of an Array(String) column in a TabSeparated response
ArrayText(a) ==
    <<"[">> \o Join([i \in 1..Len(a) |-> <<"'">> \o a[i] \o <<"'">>], <<",">>) \o <<"]">>

\* the line of a TabSeparated response for a row of the bulk query (the strings
\* of the model hold no character that the format escapes)
ResponseLine(r) ==
    Join(<< r.database, r.name, r.engine, r.engine_full, r.create_table_query,
            NullableText(r.total_rows), NullableText(r.total_bytes),
            ArrayText(r.loading_dependencies_database),
            ArrayText(r.loading_dependencies_table) >>, << Tab >>)

\* the variables refreshTableCache scans a row into, by type, and their zero
\* values: "" for a string, nil for a pointer and for a slice
RefreshDest ==
    << "string", "string", "string", "string", "string", "uint64ptr", "uint64ptr",
       "strings", "strings" >>

ZeroValue(type) == << >>

\* HTTPRows.Scan: what one field does to a variable of the given type that
\* holds old
ScanField(type, field, old) ==
    CASE type = "string" -> field
      [] type = "uint64ptr" ->
           IF field = << NullText >> \/ field = << >> \/ field = <<"0">> THEN << >>
           ELSE IF ParseUint(field).ok THEN << ParseUint(field).val >>
           ELSE old
      [] type = "strings" ->
           IF HasPrefix(field, <<"[">>) /\ HasSuffix(field, <<"]">>)
           THEN LET inner == Trim(field, {"[", "]"})
                IN  IF inner = << >> THEN << >>
                    ELSE LET parts == Split(inner, <<",">>)
                         IN  [j \in 1..Len(parts) |-> Trim(Trim(parts[j], {"'"}), {"dquote"})]
           ELSE << field >>
      [] OTHER -> old

\* the result of a Scan: its error and the variables after it
Scanned(err, values) == [err |-> err, values |-> values]

\* HTTPRows.Scan of a line into variables of the types dest: the fields of the
\* line, as far as there are variables, are stored; the function returns nil
ScanLine(line, dest) ==
    LET fields == Split(line, << Tab >>)
    IN  Scanned("", [i \in 1..Len(dest) |->
                       IF i <= Len(fields) THEN ScanField(dest[i], fields[i], ZeroValue(dest[i]))
                       ELSE ZeroValue(dest[i])])

\* rows.Scan of the native driver: the typed values of the row
ScanNative(r) ==
    Scanned("", << r.database, r.name, r.engine, r.engine_full, r.create_table_query,
                   r.total_rows, r.total_bytes, r.loading_dependencies_database,
                   r.loading_dependencies_table >>)

\* the row refreshTableCache goes on with after rows.Scan
RowOfScan(v) == Row(v[1], v[2], v[3], v[4], v[5], v[6], v[7], v[8], v[9])

\* what refreshTableCache stores for a scanned row: the table snapshot, the
\* database label and the edges
Stored(v) == CacheData(LoadRow(NewCache, RowOfScan(v), 0))

\* an argument of a statement: a string or a number
StringArg(str) == [type |-> "string", str |-> str, n |-> 0]
NumberArg(n) == [type |-> "number", str |-> << >>, n |-> n]

RECURSIVE ReplaceAll(_, _, _)
\* strings.ReplaceAll(s, old, new) for a one-symbol old
ReplaceAll(s, old, new) ==
    IF s = << >> THEN << >>
    ELSE IF Head(s) = old THEN new \o ReplaceAll(Tail(s), old, new)
    ELSE << Head(s) >> \o ReplaceAll(Tail(s), old, new)

RECURSIVE ReplaceFirst(_, _, _)
\* strings.Replace(s, old, new, 1) for a one-symbol old
ReplaceFirst(s, old, new) ==
    IF s = << >> THEN << >>
    ELSE IF Head(s) = old THEN new \o Tail(s)
    ELSE << Head(s) >> \o ReplaceFirst(Tail(s), old, new)

\* strings.Contains(s, old) for a one-symbol old
Contains(s, old) == \E i \in 1..Len(s) : s[i] = old

\* the text HTTPClient.Query puts in for an argument
ArgText(arg) ==
    IF arg.type = "string"
    THEN <<"'">> \o ReplaceAll(arg.str, "'", <<"'", "'">>) \o <<"'">>
    ELSE Digits(arg.n)

\* the placeholder "$N"
Dollar(i) == <<"$1", "$2", "$3">>[i]

RECURSIVE FinalQuery(_, _, _)
\* HTTPClient.Query: finalQuery after the loop has run for the first k arguments
FinalQuery(query, args, k) ==
    IF k = 0 THEN query
    ELSE LET finalQuery == FinalQuery(query, args, k - 1)
             argStr == ArgText(args[k])
         IN  IF Contains(finalQuery, "?") THEN ReplaceFirst(finalQuery, "?", argStr)
             ELSE IF Contains(finalQuery, Dollar(k)) THEN ReplaceAll(finalQuery, Dollar(k), argStr)
             ELSE finalQuery

----------------------------------------------------------------------------
(* the adapter specification: one input through the adapters *)

\* the rows of system.tables: a local table or a dictionary, with a row count
\* and a byte count that are absent, zero or positive
AdapterRows ==
    { Row(App, TableA, e, e, CreateTable(QualifiedName(App, TableA)), rows, bytes, d[1], d[2]) :
        e \in { <<"MergeTree">>, <<"Dictionary">> },
        rows \in { << >>, <<0>>, <<10>> }, bytes \in { << >>, <<0>>, <<2048>> },
        d \in { << << >>, << >> >>, << <<App>>, <<TableD>> >> } }

\* a row with both counts, and its line
FullRow ==
    Row(App, TableA, <<"MergeTree">>, <<"MergeTree">>, CreateTable(QualifiedName(App, TableA)),
        <<10>>, <<2048>>, << >>, << >>)

\* the first k fields of a line
Truncated(line, k) == Join(SubSeq(Split(line, << Tab >>), 1, k), << Tab >>)

\* a line whose sixth field (total_rows) is the text t
WithRows(line, t) ==
    Join([i \in 1..Len(Split(line, << Tab >>)) |->
            IF i = 6 THEN t ELSE Split(line, << Tab >>)[i]], << Tab >>)

\* response lines: a well-formed one, lines cut short, lines whose row count is
\* no number
AdapterLines ==
    { ResponseLine(FullRow) }
    \cup { Truncated(ResponseLine(FullRow), k) : k \in 1..8 }
    \cup { WithRows(ResponseLine(FullRow), t) : t \in { <<"x">>, <<"1", "x">>, <<"-", "1">> } }

\* statements with one and with two "?" placeholders
AdapterStatements ==
    { <<"SELECT", " ", "?">>,
      <<"WHERE", " ", "database", "=", "?", " ", "AND", " ", "table", "=", "?">> }

\* argument values: plain, with a quote, with a "?", with a "$2", a number
AdapterArgs ==
    { StringArg(<<"a">>), StringArg(<<"it", "'", "s">>), StringArg(<<"a", "?", "b">>),
      StringArg(<<"$2">>), NumberArg(7) }

\* the number of "?" in a statement
Placeholders(statement) == Len(SelectSeq(statement, LAMBDA c : c = "?"))

\* a statement with as many arguments as it has placeholders
AdapterQueries ==
    { q \in [statement : AdapterStatements,
             args : UNION { [1..k -> AdapterArgs] : k \in 1..2 }] :
        Len(q.args) = Placeholders(q.statement) }

InitAdapter ==
    /\ InitCache
    /\ ex = [stage |-> "off", row |-> << >>, out |-> NoOutput]
    /\ adapter \in { AdapterState("row", r, ResponseLine(r), << >>, << >>) : r \in AdapterRows }
                   \cup { AdapterState("line", << >>, l, << >>, << >>) : l \in AdapterLines }
                   \cup { AdapterState("query", << >>, << >>, q.statement, q.args) :
                            q \in AdapterQueries }

\* the native adapter: the loop of refreshTableCache scans the row
NativeScan ==
    /\ adapter.kind = "row"
    /\ adapter.native = << >>
    /\ adapter' = [adapter EXCEPT !.native = << ScanNative(adapter.row) >>]
    /\ UNCHANGED <<cache, mutex, now, procs, history, ex, legacy, req>>

\* the text-protocol adapter: the loop of refreshTableCache scans the line of
\* the response
HTTPScan ==
    /\ adapter.kind \in {"row", "line"}
    /\ adapter.http = << >>
    /\ adapter' = [adapter EXCEPT !.http = << ScanLine(adapter.line, RefreshDest) >>]
    /\ UNCHANGED <<cache, mutex, now, procs, history, ex, legacy, req>>

\* HTTPClient.Query: the statement that is sent
HTTPQuery ==
    /\ adapter.kind = "query"
    /\ adapter.sent = << >>
    /\ adapter' = [adapter EXCEPT !.sent =
                     << FinalQuery(adapter.statement, adapter.args, Len(adapter.args)) >>]
    /\ UNCHANGED <<cache, mutex, now, procs, history, ex, legacy, req>>

NextAdapter == NativeScan \/ HTTPScan \/ HTTPQuery

SpecAdapter == InitAdapter /\ [][NextAdapter]_vars

----------------------------------------------------------------------------
(* the claims about the cache specification *)

\* C1: for every edge list the cache holds, cycles and self-loops included,
\* GenerateMermaidSchema(root) terminates (it never recurses until the stack is
\* exhausted), and its output holds each edge at most once.
C1_TerminatesOnCycles ==
    \A p \in Procs :
      /\ procs[p].pc # "overflow"
      /\ (procs[p].pc = "done" /\ procs[p].op = "GenerateMermaidSchema" /\ procs[p].err = "")
           => \A i, j \in 1..Len(procs[p].value.rows) :
                (/\ procs[p].value.rows[i].src = procs[p].value.rows[j].src
                 /\ procs[p].value.rows[i].dst = procs[p].value.rows[j].dst) => i = j

\* the step in which p's refresh attempt fails
RefreshFails(p) ==
    /\ procs[p].pc = "inflight"
    /\ procs'[p].pc = "done"

\* C2: when a refresh attempt fails (the query, a row's scan or the iteration
\* reports an error), the table map, the edge list, the database index and the
\* last-refresh time are what they were before the attempt, and the caller
\* gets the error.
C2_FailedRefreshKeepsCache ==
    [][\A p \in Procs : RefreshFails(p) => (cache' = cache /\ procs'[p].err # "")]_vars

\* C3: once a refresh has succeeded, an operation whose refresh attempt fails
\* still answers, without an error, with the data of the last successful
\* generation.
C3_WarmFailureServesLastGood ==
    \A p \in Procs :
      (procs[p].pc = "done" /\ procs[p].failedWarm)
        => /\ procs[p].err = ""
           /\ procs[p].op # "GenerateMermaidSchema"
                => procs[p].value = ReadValue(history.good, procs[p].op, procs[p].db,
                                              procs[p].table)

\* C4: whatever a single read operation uses of the table map, the edge list
\* and the database index is the data of one generation, and that generation's
\* load completed.
C4_NoTornReads ==
    \A p \in Procs :
      /\ Cardinality(procs[p].obs) <= 1
      /\ procs[p].obs \subseteq history.completed

\* the step in which p's call of refreshTableCache issues the bulk query
IssuesQuery(p) ==
    /\ procs[p].pc = "check"
    /\ procs'[p].pc = "inflight"

\* a refresh has succeeded and less than the TTL has passed since
WithinTTL == cache.LastRefresh # ZeroTime /\ now - cache.LastRefresh < TTL

\* C5: after a successful refresh, whatever the warehouse held, a call of
\* refreshTableCache made within the TTL of it issues no bulk query.
C5_NoQueryWithinTTL ==
    [][\A p \in Procs : IssuesQuery(p) => ~WithinTTL]_vars

\* C6: at most one refresh body runs at a time, and a caller that waited for
\* the lock while a refresh succeeded re-checks and, within the TTL of that
\* refresh, returns without a bulk query of its own.
C6_RefreshesCollapse ==
    [][/\ Cardinality({p \in Procs : procs[p].pc \in {"check", "inflight"}}) <= 1
       /\ \A p \in Procs : (procs[p].waited /\ IssuesQuery(p)) => ~WithinTTL]_vars

\* C7: no operation waits for the cache's lock while another operation reads
\* under it or while a refresh's bulk query and load are in flight.
C7_ReadersNeverWait ==
    \A p \in Procs :
      procs[p].pc \in {"lock", "rlock"}
        => \A q \in Procs \ {p} : procs[q].pc \notin {"inflight", "reading"}

\* the database of a qualified table name
DatabaseOf(name) ==
    IF \E i \in 1..Len(name) : name[i] = "."
    THEN LET i == CHOOSE k \in 1..Len(name) :
                    name[k] = "." /\ \A j \in 1..(k - 1) : name[j] # "."
         IN  SubSeq(name, 1, i - 1)
    ELSE name

\* C8: no table of a denylisted database is in the database index, in the
\* table map, or an endpoint of an edge of the edge list.
C8_NoDenylistedTables ==
    /\ \A db \in DOMAIN cache.DatabasesMap : allowedDatabase(db)
    /\ \A t \in DOMAIN cache.Tables : allowedDatabase(cache.Tables[t].Database)
    /\ \A i \in 1..Len(cache.Relations) :
         /\ cache.Relations[i].Table # EmptyString
              => allowedDatabase(DatabaseOf(cache.Relations[i].Table))
         /\ cache.Relations[i].DependsOnTable # EmptyString
              => allowedDatabase(DatabaseOf(cache.Relations[i].DependsOnTable))

\* p has finished the operation op and its refresh did not fail
Answered(p, op) ==
    /\ procs[p].pc = "done"
    /\ procs[p].op = op
    /\ procs[p].obs # {}

\* the row or byte count of a cached table, an absent one taken as 0
CountOrZero(t, field) == IF t[field] = << >> THEN 0 ELSE t[field][1]

\* the sum of a count over the tables keys: each value times the number of
\* tables that have it
RECURSIVE SumByValue(_, _, _, _)
SumByValue(values, keys, tables, field) ==
    IF values = {} THEN 0
    ELSE LET v == CHOOSE x \in values : TRUE
         IN  v * Cardinality({k \in keys : CountOrZero(tables[k], field) = v})
               + SumByValue(values \ {v}, keys, tables, field)

Total(keys, tables, field) ==
    SumByValue({CountOrZero(tables[k], field) : k \in keys}, keys, tables, field)

\* the aggregate over the tables keys: their number and their row and byte totals
AggregateMatches(a, number, keys, tables) ==
    /\ number = Cardinality(keys)
    /\ a.TotalRows = Total(keys, tables, "TotalRows")
    /\ a.TotalBytes = Total(keys, tables, "TotalBytes")

\* C14: GetDatabaseStats(d) returns the number of cached tables of database d,
\* the sums of their row and byte counts with an absent count taken as 0, and
\* for each engine kind among them an entry computed the same way over the
\* tables of that kind, tables without counts included.
C14_StatsAreSums ==
    \A p \in Procs : \A g \in procs[p].obs :
      Answered(p, "GetDatabaseStats")
        => LET tables == g.Tables
               mine == {k \in DOMAIN tables : tables[k].Database = procs[p].db}
               stats == procs[p].value
           IN  /\ procs[p].err = ""
               /\ AggregateMatches(stats, stats.TotalTables, mine, tables)
               /\ DOMAIN stats.EngineCounts = {tables[k].Engine : k \in mine}
               /\ \A e \in DOMAIN stats.EngineCounts :
                    AggregateMatches(stats.EngineCounts[e], stats.EngineCounts[e].Count,
                                     {k \in mine : tables[k].Engine = e}, tables)

\* the statistics of app over two MergeTree tables (10 and 20 rows) and two
\* Distributed tables without counts
C14_Witness ==
    \E p \in Procs :
      /\ Answered(p, "GetDatabaseStats")
      /\ procs[p].db = App
      /\ procs[p].value.TotalTables = 4
      /\ procs[p].value.TotalRows = 30
      /\ procs[p].value.TotalBytes = 2560
      /\ procs[p].value.EngineCounts[<<"MergeTree">>] =
           [Count |-> 2, TotalRows |-> 30, TotalBytes |-> 2560]
      /\ procs[p].value.EngineCounts[<<"Distributed">>] =
           [Count |-> 2, TotalRows |-> 0, TotalBytes |-> 0]

\* the database p asked for has no table in what p read
UnknownDatabase(p) ==
    \A g \in procs[p].obs : \A k \in DOMAIN g.Tables : g.Tables[k].Database # procs[p].db

C16_AbsentTableNotFound ==
    \A p \in Procs :
      (/\ Answered(p, "GenerateMermaidSchema")
       /\ \A g \in procs[p].obs :
            ~MapHas(g.Tables, QualifiedName(procs[p].db, procs[p].table)))
        => procs[p].err = "not found"

----------------------------------------------------------------------------
(* the claims about the extraction specification *)

\* C9: on every row, whatever its engine, creation statement and engine
\* parameters split into, both extraction paths complete without a crash.
C9_ExtractionNeverFails ==
    ex.stage \in {"cache", "legacy"} => ~ex.out.panic

\* C10: extractRelationsFromQuery yields no edge with a source for a table
\* whose engine is MergeTree, starts with Replicated, or is none of the policy
\* table's kinds (Distributed, MaterializedView, Dictionary).
C10_TerminalEnginesHaveNoSource ==
    (/\ ex.stage = "cache"
     /\ \/ ex.row.engine = <<"MergeTree">>
        \/ HasPrefix(ex.row.engine, <<"Replicated">>)
        \/ /\ ex.row.engine \notin { <<"Distributed">>, <<"MaterializedView">> }
           /\ ~HasPrefix(ex.row.engine, <<"Dictionary">>))
      => \A i \in 1..Len(ex.out.relations) :
           ex.out.relations[i].DependsOnTable = EmptyString

\* the relations that are edges: those with a source
Edges(relations) == SelectSeq(relations, LAMBDA r : r.DependsOnTable # EmptyString)

\* the endpoints of a relation
Endpoints(r) == <<r.DependsOnTable, r.Table>>

\* the endpoints of the edges extractRelationsFromQuery has yielded
CacheEdges == [i \in 1..Len(Edges(ex.out.relations)) |-> Endpoints(Edges(ex.out.relations)[i])]

\* the number of single quotes (or of any symbol c) in a string
RECURSIVE CountSym(_, _)
CountSym(s, c) ==
    IF s = << >> THEN 0 ELSE (IF Head(s) = c THEN 1 ELSE 0) + CountSym(Tail(s), c)

\* the n-th token of s between the symbols c: what lies between the (n-1)-th
\* and the n-th occurrence of c
TokenOf(s, c, n) ==
    LET at == {i \in 1..Len(s) : s[i] = c}
        nth(k) == IF k = 0 THEN 0
                  ELSE IF k > Cardinality(at) THEN Len(s) + 1
                  ELSE CHOOSE i \in at : Cardinality({j \in at : j < i}) = k - 1
    IN  SubSeq(s, nth(n - 1) + 1, nth(n) - 1)

\* C11: for an engine that is exactly Distributed, when the engine parameter
\* string has at least 6 tokens between single quotes (5 quotes or more)
\* extraction yields exactly one edge, from the table's qualified name to
\* <4th token>.<6th token>; with fewer tokens it yields no edge.
C11_DistributedEdge ==
    (ex.stage = "cache" /\ ex.row.engine = <<"Distributed">>)
      => IF CountSym(ex.row.engine_full, "'") >= 5
         THEN CacheEdges =
                << << ex.row.database \o <<".">> \o ex.row.name,
                      TokenOf(ex.row.engine_full, "'", 4) \o <<".">>
                        \o TokenOf(ex.row.engine_full, "'", 6) >> >>
         ELSE CacheEdges = << >>

\* a Distributed table with exactly 6 tokens has its one edge to app.a
C11_Witness ==
    /\ ex.stage = "cache"
    /\ ex.row.engine = <<"Distributed">>
    /\ CountSym(ex.row.engine_full, "'") = 5
    /\ CacheEdges = << << <<"app", ".", "t">>, <<"app", ".", "a">> >> >>

\* the table names of the creation statements
StatementNames == { <<"app", ".", "t">>, <<"app", ".", "dest">>, <<"app", ".", "src">> }

\* "FROM " occurs in a statement
HasFrom(q) == \E i \in 1..(Len(q) - 1) : q[i] = "FROM" /\ q[i + 1] = " "

\* C12: for an engine that is exactly MaterializedView, a creation statement
\* CREATE MATERIALIZED VIEW <view> TO <dest> AS SELECT * FROM <src> (with or
\* without a clause after <src>) yields exactly the two edges <src> -> <view>
\* and <view> -> <dest>, in that order; a statement of fewer than 6 tokens
\* between spaces, or without "FROM ", yields no edge.
C12_MaterializedViewEdges ==
    (ex.stage = "cache" /\ ex.row.engine = <<"MaterializedView">>)
      => /\ \A v, d, src \in StatementNames :
              ex.row.create_table_query \in {CreateMV(v, d, src), CreateMVWhere(v, d, src)}
                => CacheEdges = << <<src, v>>, <<v, d>> >>
         /\ (CountSym(ex.row.create_table_query, " ") < 5 \/ ~HasFrom(ex.row.create_table_query))
              => CacheEdges = << >>

\* a materialized view with a clause after its source has its two edges
C12_Witness ==
    /\ ex.stage = "cache"
    /\ ex.row.engine = <<"MaterializedView">>
    /\ ex.row.create_table_query =
         CreateMVWhere(<<"app", ".", "t">>, <<"app", ".", "dest">>, <<"app", ".", "src">>)
    /\ CacheEdges = << << <<"app", ".", "src">>, <<"app", ".", "t">> >>,
                       << <<"app", ".", "t">>, <<"app", ".", "dest">> >> >>

\* C13: for an engine that starts with Dictionary, extraction yields exactly one
\* edge, <first dependency database>.<first dependency table> -> this table,
\* when both dependency lists are non-empty, and no edge otherwise.
C13_DictionaryEdge ==
    (ex.stage = "cache" /\ HasPrefix(ex.row.engine, <<"Dictionary">>))
      => IF ex.row.deps[1] # << >> /\ ex.row.deps[2] # << >>
         THEN CacheEdges =
                << << Head(ex.row.deps[1]) \o <<".">> \o Head(ex.row.deps[2]),
                      ex.row.database \o <<".">> \o ex.row.name >> >>
         ELSE CacheEdges = << >>

\* a dictionary with a declared dependency has its one edge from app.src
C13_Witness ==
    /\ ex.stage = "cache"
    /\ ex.row.engine = <<"Dictionary">>
    /\ CacheEdges = << << <<"app", ".", "src">>, <<"app", ".", "t">> >> >>

----------------------------------------------------------------------------
(* the claims about the walk specification *)

\* the (source, target) pair of an edge line, and of a relation
PairOfLine(row) == <<row.src, row.dst>>
PairOf(rel) == <<Hash32(rel.DependsOnTable), Hash32(rel.Table)>>

RECURSIVE Reached(_, _, _, _)
\* the tables reached from those of S in at most k steps along the relations:
\* forward for "next", backward for "back"
Reached(fn, relations, S, k) ==
    IF k = 0 THEN S
    ELSE Reached(fn, relations,
                 S \cup { IF fn = "next" THEN relations[i].Table
                          ELSE relations[i].DependsOnTable :
                            i \in {j \in 1..Len(relations) :
                                     \E t \in S : Matches(fn, relations[j], t)} },
                 k - 1)

\* the pairs of the edges reachable from the root, forward or backward
ReachablePairs(relations, root) ==
    { PairOf(relations[i]) :
        i \in {j \in 1..Len(relations) :
                 \E fn \in {"next", "back"} :
                   \E t \in Reached(fn, relations, {root}, Len(relations)) :
                     Matches(fn, relations[j], t)} }

\* no table is reached from itself
Acyclic(relations) ==
    \A i \in 1..Len(relations) :
      relations[i].DependsOnTable # EmptyString =>
        relations[i].DependsOnTable
          \notin Reached("next", relations, {relations[i].Table}, Len(relations))

\* C19: for an acyclic edge list, the output of GenerateMermaidSchema holds
\* exactly one edge line per distinct (source, target) pair reachable from the
\* root, however often the pair occurs in the edge list and whichever walk
\* meets it.
C19_OneLinePerPair ==
    \A p \in Procs :
      (Answered(p, "GenerateMermaidSchema") /\ procs[p].err = ""
         /\ Acyclic(procs[p].relations)) =>
        LET rows == procs[p].value.rows
        IN  /\ \A i, j \in 1..Len(rows) : i < j => PairOfLine(rows[i]) # PairOfLine(rows[j])
            /\ {PairOfLine(rows[i]) : i \in 1..Len(rows)}
                 = ReachablePairs(procs[p].relations,
                                  QualifiedName(procs[p].db, procs[p].table))


----------------------------------------------------------------------------
(* the claims about the whole-database schema specification *)

\* the request has been answered with a diagram
Rendering == req.pc = "done" /\ req.err = ""

\* the engine kind is one of the filters, letter case aside; every kind when
\* there is no filter
Allowed(engineType, engineFilters) ==
    \/ engineFilters = << >>
    \/ \E i \in 1..Len(engineFilters) : ToLower(engineFilters[i]) = ToLower(engineType)

\* a node of the output is a table of the requested database whose engine
\* kind passes the filter
RenderedNode(n) ==
    /\ n \in req.nodes
    /\ MapHas(req.tablesMap, n.table)
    /\ Allowed(n.engine, req.engineFilters)

\* C17: every edge line in the output of GenerateDatabaseMermaidSchema joins two
\* rendered nodes of that output, both tables of the requested database that
\* pass the engine filter; no edge with an endpoint outside that set is emitted.
C17_EdgesJoinRenderedNodes ==
    Rendering =>
      \A e \in req.edges :
        \E n, m \in req.nodes :
          /\ RenderedNode(n) /\ n.id = e.src
          /\ RenderedNode(m) /\ m.id = e.dst

\* a diagram with an edge line, from relations of which one has an endpoint
\* that is no rendered node and is left out
C17_Witness ==
    /\ Rendering
    /\ req.edges # {}
    /\ \E i \in 1..Len(req.tablesRelations) :
         /\ req.tablesRelations[i].DependsOnTable # EmptyString
         /\ EdgeLine(req.tablesRelations[i]) \notin req.edges
         /\ \E n \in req.nodes : n.id = Hash32(req.tablesRelations[i].DependsOnTable)

\* the tables of the current generation and the relations the request used
\* were read from the same rows of system.tables, and the request's database
\* index is the current generation's
OneReading ==
    /\ MapHas(cache.DatabasesMap, req.db)
    /\ req.tablesMap = cache.DatabasesMap[req.db]
    /\ \E w \in SchemaWarehouses :
         /\ cache.Tables = LoadRows(NewCache, BulkQuery(w), Len(BulkQuery(w)), now).Tables
         /\ req.tablesRelations = LegacyRelations(w, Len(w))

\* the tables of the requested database in the current generation whose engine
\* kind passes the filter
TablesToRender ==
    { cache.Tables[k].Name :
        k \in {j \in DOMAIN cache.Tables :
                 /\ cache.Tables[j].Database = req.db
                 /\ Allowed(cache.Tables[j].Engine, req.engineFilters)} }

\* C18: the table nodes rendered by GenerateDatabaseMermaidSchema are exactly
\* the tables of the database in the current generation whose engine kind is
\* in the filter (all of them without a filter), whatever their engine kind.
C18_NodesAreTheTablesOfTheDatabase ==
    (Rendering /\ OneReading) => {n.table : n \in req.nodes} = TablesToRender

\* how long before the request's freshness check (that of its GetDatabases) the
\* edge list it used was read from the warehouse
RelationsAge == req.checkedAt - req.relationsAt

\* C20: every answer, the edge list used by GenerateDatabaseMermaidSchema
\* included, is computed from warehouse metadata read no longer than the TTL
\* before the request's freshness check.
C20_AnswersWithinTTL ==
    Rendering => RelationsAge <= TTL

\* C21: while the cache is fresh the read paths answer from memory: no query
\* goes to the adapter.  freshQueries holds the functions of the request that
\* sent one at an instant at which the cache was fresh.
C21_FreshReadsIssueNoQuery ==
    req.freshQueries = {}

----------------------------------------------------------------------------
(* the claims about the cache's structures, under the walk specification *)

\* the table map and the database index of c name the same tables: every
\* table of the index is in the table map under its qualified name, with its
\* own database and name, and every entry of the table map is in the index
SameTables(c) ==
    /\ \A d \in DOMAIN c.DatabasesMap : \A t \in DOMAIN c.DatabasesMap[d] :
         /\ MapHas(c.Tables, QualifiedName(d, t))
         /\ c.Tables[QualifiedName(d, t)].Database = d
         /\ c.Tables[QualifiedName(d, t)].Name = t
    /\ \A k \in DOMAIN c.Tables :
         /\ k = QualifiedName(c.Tables[k].Database, c.Tables[k].Name)
         /\ MapHas(c.DatabasesMap, c.Tables[k].Database)
         /\ MapHas(c.DatabasesMap[c.Tables[k].Database], c.Tables[k].Name)

\* the cache holds what the last successful refresh loaded
AfterSuccessfulRefresh == history.warm /\ CacheData(cache) = history.good

\* C22: after every successful refresh the table map and the database index
\* describe the same set of tables with unique qualified names, also when a
\* database or table name holds a dot.
C22_IndexMatchesTableMap ==
    AfterSuccessfulRefresh => SameTables(cache)

\* the row and byte counts of a table of the requested database, as a node's
\* text embeds them; << >> when the current generation has none for it
MetadataOf(table) ==
    LET name == QualifiedName(req.db, table)
    IN  IF MapHas(cache.Tables, name) /\ cache.Tables[name].TotalRows # << >>
        THEN << formatRows(cache.Tables[name].TotalRows),
                formatBytes(cache.Tables[name].TotalBytes) >>
        ELSE << >>

\* C23: in the output of GenerateDatabaseMermaidSchema a node's display text
\* embeds the table's row/byte metadata when includeMetadata is true and
\* omits it when includeMetadata is false.
C23_MetadataFollowsToggle ==
    Rendering =>
      \A n \in req.nodes :
        n.content.meta = IF req.includeMetadata THEN MetadataOf(n.table) ELSE << >>

----------------------------------------------------------------------------
(* the claims about the adapter specification *)

\* both adapters have scanned the row
BothScanned == adapter.kind = "row" /\ adapter.native # << >> /\ adapter.http # << >>

\* C24: the native-protocol adapter and the text-protocol adapter are
\* interchangeable for the cache refresh: for the same warehouse row both
\* deliver the same field values (the optional row and byte counts present with
\* the same value in both or absent in both), so the table snapshot, the
\* database label and the edges are identical.
C24_AdaptersInterchangeable ==
    BothScanned =>
      /\ adapter.native[1].err = adapter.http[1].err
      /\ adapter.native[1].values = adapter.http[1].values
      /\ Stored(adapter.native[1].values) = Stored(adapter.http[1].values)

\* the text of a count that the warehouse can write: NULL or a decimal number
CountText(field) == field = << NullText >> \/ ParseUint(field).ok

\* a line of the response is malformed for the scan of refreshTableCache: it
\* has fewer fields than variables, or a count that is no number
Malformed(line) ==
    LET fields == Split(line, << Tab >>)
    IN  \/ Len(fields) < Len(RefreshDest)
        \/ \E i \in 1..Len(RefreshDest) :
             RefreshDest[i] = "uint64ptr" /\ ~CountText(fields[i])

\* C25: when the text-protocol response is malformed - a row with fewer fields
\* than the caller scans, or a numeric field that does not parse - the scan
\* reports an error; a malformed row is never accepted with unset fields.
C25_MalformedRowIsAnError ==
    (adapter.kind = "line" /\ adapter.http # << >> /\ Malformed(adapter.line)) =>
      adapter.http[1].err # ""

----------------------------------------------------------------------------
(* further claims about the whole-database schema specification *)

\* C26: GenerateDatabaseMermaidSchema terminates for every edge list, also one
\* in which tables of the requested database form a cycle or a self-loop among
\* the rendered nodes: the recursion of getDatabaseRelationsNext /
\* getDatabaseRelationsBack never goes on without end.
C26_DatabaseSchemaTerminates ==
    ~SchemaCrashed

----------------------------------------------------------------------------
(* further claims about the adapter specification *)

RECURSIVE Bound(_, _, _)
\* the statement in which the i-th, (i+1)-th, ... "?" of the original
\* statement is replaced by the text of the argument of that number
Bound(statement, args, i) ==
    IF statement = << >> THEN << >>
    ELSE IF Head(statement) = "?"
         THEN ArgText(args[i]) \o Bound(Tail(statement), args, i + 1)
         ELSE << Head(statement) >> \o Bound(Tail(statement), args, i)

\* C27: HTTPClient.Query with k "?" placeholders and k arguments sends the
\* statement in which the i-th placeholder of the original statement is replaced
\* by the quoted, quote-escaped i-th argument, whatever the arguments hold; no
\* argument's text is rewritten by the substitution of a later one.
C27_PlaceholdersBoundInOrder ==
    (adapter.kind = "query" /\ adapter.sent # << >>) =>
      adapter.sent[1] = Bound(adapter.statement, adapter.args, 1)

----------------------------------------------------------------------------
(* the claim about the lock, under the specification of the lock *)

\* goroutine p holds the cache's RWMutex, for reading or for writing
HoldsLock(p) == p \in mutex.readers \/ mutex.writer = p

\* goroutine p is about to call Lock or RLock: at the start of
\* refreshTableCache, before the read of the operation, or before a call of
\* generateTableNodeContent
Acquiring(p) == procs[p].pc \in {"lock", "rlock", "node", "walk"}

\* no goroutine acquires the lock while it holds it
NoLockHeldWhileAcquiring == \A p \in Procs : Acquiring(p) => ~HoldsLock(p)

\* the bound of the model on the number of queries is used up
QueriesExhausted == history.gen >= MaxGen

----------------------------------------------------------------------------
(* the claim about the endpoints of the extracted edges *)

\* the qualified name of the row extraction has run on
OwnName == QualifiedName(ex.row.database, ex.row.name)

\* C29: every edge that extractRelationsFromQuery produces for a table row has
\* the row's own qualified name (database.table) as one of its endpoints; the
\* two edges of a materialized view meet at the view's qualified name, as the
\* target of the first and the source of the second; and at least one endpoint
\* of every edge is non-empty.
C29_EdgesTouchTheirRow ==
    ex.stage = "cache"
      => /\ \A i \in 1..Len(ex.out.relations) :
              /\ OwnName \in {ex.out.relations[i].DependsOnTable, ex.out.relations[i].Table}
              /\ \/ ex.out.relations[i].DependsOnTable # EmptyString
                 \/ ex.out.relations[i].Table # EmptyString
         /\ (ex.row.engine = <<"MaterializedView">> /\ Len(ex.out.relations) = 2)
              => /\ ex.out.relations[1].Table = OwnName
                 /\ ex.out.relations[2].DependsOnTable = OwnName

----------------------------------------------------------------------------
(* the claim about the edges GenerateMermaidSchema emits *)

\* a relation with a source is an edge
IsEdge(rel) == rel.DependsOnTable # EmptyString

RECURSIVE Linked(_, _, _, _)
\* the tables of S and those at most k edges away from them, following the
\* edges forward (from source to target) or backward
Linked(forward, relations, S, k) ==
    IF k = 0 THEN S
    ELSE Linked(forward, relations,
                S \cup { IF forward THEN relations[i].Table ELSE relations[i].DependsOnTable :
                           i \in {j \in 1..Len(relations) :
                                    /\ IsEdge(relations[j])
                                    /\ (IF forward THEN relations[j].DependsOnTable
                                        ELSE relations[j].Table) \in S} },
                k - 1)

\* the edges whose source is the root or is reachable from the root
ForwardEdges(relations, root) ==
    { PairOf(relations[i]) :
        i \in {j \in 1..Len(relations) :
                 /\ IsEdge(relations[j])
                 /\ relations[j].DependsOnTable
                      \in Linked(TRUE, relations, {root}, Len(relations))} }

\* the edges whose target is the root or reaches the root
BackwardEdges(relations, root) ==
    { PairOf(relations[i]) :
        i \in {j \in 1..Len(relations) :
                 /\ IsEdge(relations[j])
                 /\ relations[j].Table
                      \in Linked(FALSE, relations, {root}, Len(relations))} }

\* the pairs of the edge lines of p's answer
EmittedPairs(p) == { PairOfLine(procs[p].value.rows[i]) : i \in 1..Len(procs[p].value.rows) }

\* C30: for an acyclic edge list, the set of edges GenerateMermaidSchema(root)
\* emits is the set of the edges whose source is the root or reachable from
\* it, united with the set of the edges whose target is the root or reaches
\* it; an edge that touches only siblings is not emitted; and every forward
\* edge is written before every backward edge.
C30_EmitsAncestryAndDescent ==
    \A p \in Procs :
      (Answered(p, "GenerateMermaidSchema") /\ procs[p].err = ""
         /\ Acyclic(procs[p].relations)) =>
        LET rows == procs[p].value.rows
            root == QualifiedName(procs[p].db, procs[p].table)
            F == ForwardEdges(procs[p].relations, root)
            B == BackwardEdges(procs[p].relations, root)
        IN  /\ EmittedPairs(p) = F \cup B
            /\ \A i, j \in 1..Len(rows) :
                 i < j => ~(PairOfLine(rows[i]) \in B /\ PairOfLine(rows[j]) \in F)

\* an answer with a forward and a backward edge line that leaves out the two
\* edges between siblings
C30_Witness ==
    \E p \in Procs :
      /\ Answered(p, "GenerateMermaidSchema")
      /\ procs[p].err = ""
      /\ Acyclic(procs[p].relations)
      /\ EmittedPairs(p) = { <<Hash32(QualifiedName(App, TableD)), Hash32(QualifiedName(App, TableA))>>,
                             <<Hash32(QualifiedName(App, TableP)), Hash32(QualifiedName(App, TableD))>> }
      /\ \E i, j \in 1..Len(procs[p].relations) :
           /\ procs[p].relations[i].Table = QualifiedName(App, TableS)
           /\ procs[p].relations[j].DependsOnTable = QualifiedName(App, TableB)

============================================================================
